---- MODULE Spec2Model ----
(***************************************************************************)
(* A model of mash (crisidev/mash): the callback registry, the display-name *)
(* registry, the per-shell state machine (RemoteShell) and the event loop   *)
(* of main.rs with its control commands.                                    *)
(*                                                                          *)
(* Byte strings are sequences of tokens.  A token stands for one byte       *)
(* ("/", "#", ":", "LF", "SP", "x", a digit) or for a run of bytes the code  *)
(* only ever handles as a whole ("mash-", the five random alphanumerics of   *)
(* random_string(5), a literal fragment of a command).                      *)
(***************************************************************************)
EXTENDS Integers, Sequences, FiniteSets, TLC

\* ------------------------------------------------------------------ bounds

\* CallbackRegistry.add calls made on one registry
MaxCbAdds == 2

\* callers of the display-name registry that may hold a name at one time
MaxHolders == 2

\* cap on a counter of nr_enabled_by_length (the code's is unbounded)
MaxCount == 2

\* shells that get an id in one session
MaxShells == 2

\* Data events and input lines handled where the handlers run in any order
MaxEvents == 3

\* complete lines a shell may hold in read_in_state_not_started, and bytes of
\* an unfinished line it may hold in read_buffer, when it is given more data
MaxBuf == 1

\* the password auto-replies one shell is followed through
MaxPasswordWrites == 2

\* distinct new words one input line may hold
MaxLineWords == 3

\* the init strings handle_data writes to one shell that are followed
MaxInitWrites == 2

\* ------------------------------------------------------------ byte helpers

LF == "LF"
SP == "SP"

Digit(d) == CASE d = 0 -> "0" [] d = 1 -> "1" [] d = 2 -> "2" [] d = 3 -> "3"
              [] d = 4 -> "4" [] d = 5 -> "5" [] d = 6 -> "6" [] d = 7 -> "7"
              [] d = 8 -> "8" [] OTHER -> "9"

\* format!("{}", n) of an unsigned number: its decimal digits
RECURSIVE Decimal(_)
Decimal(n) == IF n < 10 THEN <<Digit(n)>> ELSE Decimal(n \div 10) \o <<Digit(n % 10)>>

\* data.windows(len(pat)).position(|w| w == pat): first index (1-based) or 0
FirstWindow(data, pat) ==
    LET least(hits) == IF Len(pat) = 0 \/ hits = {} THEN 0
                       ELSE CHOOSE i \in hits : \A j \in hits : i <= j
    IN  least({i \in 1..(Len(data) - Len(pat) + 1) : SubSeq(data, i, i + Len(pat) - 1) = pat})

\* iter().position(|b| b == tok) from index `from` on: first index or 0
FirstToken(data, tok, from) ==
    LET least(hits) == IF hits = {} THEN 0 ELSE CHOOSE i \in hits : \A j \in hits : i <= j
    IN  least({i \in from..Len(data) : data[i] = tok})

\* iter().rposition(|b| b == tok): last index or 0
LastToken(data, tok) ==
    LET greatest(hits) == IF hits = {} THEN 0 ELSE CHOOSE i \in hits : \A j \in hits : i >= j
    IN  greatest({i \in 1..Len(data) : data[i] = tok})

RECURSIVE Filter(_, _)
Filter(data, drop) ==
    IF data = <<>> THEN <<>>
    ELSE (IF Head(data) \in drop THEN <<>> ELSE <<Head(data)>>) \o Filter(Tail(data), drop)

Contains(data, pat) == FirstWindow(data, pat) # 0

\* --------------------------------------------------------- callbacks.rs

\* the outcomes of random_string(5) the model distinguishes
RandomStrings == {"r1", "r2"}

SeenPrompt == [kind |-> "SeenPrompt", new_name |-> <<>>]
Rename(n)  == [kind |-> "Rename", new_name |-> n]
NoneAction == [kind |-> "None", new_name |-> <<>>]

\* Option<CallbackAction>
NoMatch == [some |-> FALSE, action |-> NoneAction]
Some(a) == [some |-> TRUE, action |-> a]

EmptyMap == [k \in {} |-> 0]

MapPut(m, k, v) == [x \in (DOMAIN m) \cup {k} |-> IF x = k THEN v ELSE m[x]]
MapDel(m, k) == [x \in (DOMAIN m) \ {k} |-> m[x]]

\* CallbackRegistry::new, rnd the outcome of random_string(5)
CallbackRegistry_new(rnd) ==
    [common_prefix |-> <<"mash-", rnd, ":">>,
     callbacks     |-> EmptyMap,
     nr_generated  |-> 0]

\* CallbackRegistry::add, as a plausible slip would have it: the trigger is
\* split behind the common prefix instead of in its middle
CallbackRegistry_add_split_behind(reg, name, action, repeat, rnd) ==
    LET name_safe == [i \in 1..Len(name) |-> IF name[i] = "/" THEN "_" ELSE name[i]]
        added(trigger, split) ==
            [reg |-> [reg EXCEPT !.nr_generated = reg.nr_generated + 1,
                                 !.callbacks = MapPut(reg.callbacks, trigger,
                                                      [action |-> action, repeat |-> repeat])],
             p1  |-> SubSeq(trigger, 1, split),
             p2  |-> SubSeq(trigger, split + 1, Len(trigger))]
    IN  added(reg.common_prefix \o name_safe \o <<":", rnd, ":">>
                  \o Decimal(reg.nr_generated) \o <<"/">>,
              Len(reg.common_prefix))

\* CallbackRegistry::add: the registry afterwards and the two halves returned
CallbackRegistry_add(reg, name, action, repeat, rnd) ==
    LET name_safe == [i \in 1..Len(name) |-> IF name[i] = "/" THEN "_" ELSE name[i]]
        added(trigger, split) ==
            [reg |-> [reg EXCEPT !.nr_generated = reg.nr_generated + 1,
                                 !.callbacks = MapPut(reg.callbacks, trigger,
                                                      [action |-> action, repeat |-> repeat])],
             p1  |-> SubSeq(trigger, 1, split),
             p2  |-> SubSeq(trigger, split + 1, Len(trigger))]
    IN  added(reg.common_prefix \o name_safe \o <<":", rnd, ":">>
                  \o Decimal(reg.nr_generated) \o <<"/">>,
              Len(reg.common_prefix) \div 2)

any_in(reg, data) == Contains(data, reg.common_prefix)

\* the removal of a one-shot entry, as a plausible slip would have it
RemoveEntryKeepAll(callbacks, trigger, repeat) == callbacks

RemoveEntry(callbacks, trigger, repeat) ==
    IF ~repeat THEN MapDel(callbacks, trigger) ELSE callbacks

\* CallbackRegistry::process: the registry afterwards and the Option returned
CallbackRegistry_process(reg, line) ==
    LET matched(trigger, remainder, entry) ==
            [reg    |-> [reg EXCEPT !.callbacks = RemoveEntry(reg.callbacks, trigger, entry.repeat)],
             result |-> Some(IF entry.action.kind = "Rename"
                             THEN Rename(Filter(remainder, {LF, SP}))
                             ELSE entry.action)]
        looked(trigger, remainder) ==
            IF trigger \notin DOMAIN reg.callbacks
            THEN [reg |-> reg, result |-> NoMatch]
            ELSE matched(trigger, remainder, reg.callbacks[trigger])
        ended(start, slash) ==
            IF slash = 0 THEN [reg |-> reg, result |-> NoMatch]
            ELSE looked(SubSeq(line, start, slash), SubSeq(line, slash + 1, Len(line)))
        started(start) ==
            IF start = 0 THEN [reg |-> reg, result |-> NoMatch]
            ELSE ended(start, FirstToken(line, "/", start))
    IN  started(FirstWindow(line, reg.common_prefix))

\* ------------------------------------------------------ display_names.rs

\* Option<String>
NoName == [some |-> FALSE, v |-> <<>>]
SomeName(n) == [some |-> TRUE, v |-> n]

IsDigit(t) == t \in {"0", "1", "2", "3", "4", "5", "6", "7", "8", "9"}

DigitValue(t) == CASE t = "0" -> 0 [] t = "1" -> 1 [] t = "2" -> 2 [] t = "3" -> 3
                   [] t = "4" -> 4 [] t = "5" -> 5 [] t = "6" -> 6 [] t = "7" -> 7
                   [] t = "8" -> 8 [] OTHER -> 9

RECURSIVE DecimalValue(_)
DecimalValue(s) ==
    IF s = <<>> THEN 0 ELSE 10 * DecimalValue(SubSeq(s, 1, Len(s) - 1)) + DigitValue(s[Len(s)])

\* s.parse::<usize>().unwrap_or(0)
ParseOrZero(s) ==
    IF s # <<>> /\ \A i \in 1..Len(s) : IsDigit(s[i]) THEN DecimalValue(s) ELSE 0

MaxOf(S) == IF S = {} THEN 0 ELSE CHOOSE m \in S : \A x \in S : m >= x

DisplayNameRegistry_new ==
    [prefixes |-> EmptyMap, nr_enabled_by_length |-> EmptyMap, max_display_name_length |-> 0]

\* acquire_prefix_index, as a plausible slip would have it: free slots are not
\* looked for, a new slot is pushed every time
acquire_prefix_index_pushing(reg, prefix) ==
    LET pushed(slots) ==
            [reg |-> [reg EXCEPT !.prefixes = MapPut(@, prefix, Append(slots, TRUE))],
             idx |-> Len(slots)]
    IN  pushed(IF prefix \in DOMAIN reg.prefixes THEN reg.prefixes[prefix] ELSE <<>>)

\* acquire_prefix_index: the registry afterwards and the index returned (0-based)
acquire_prefix_index(reg, prefix) ==
    LET taken(slots, free) ==
            IF free # {}
            THEN [reg |-> [reg EXCEPT !.prefixes = MapPut(@, prefix,
                               [slots EXCEPT ![CHOOSE i \in free : \A j \in free : i <= j] = TRUE])],
                  idx |-> (CHOOSE i \in free : \A j \in free : i <= j) - 1]
            ELSE [reg |-> [reg EXCEPT !.prefixes = MapPut(@, prefix, Append(slots, TRUE))],
                  idx |-> Len(slots)]
        scanned(slots) == taken(slots, {i \in 1..Len(slots) : ~slots[i]})
    IN  scanned(IF prefix \in DOMAIN reg.prefixes THEN reg.prefixes[prefix] ELSE <<>>)

RECURSIVE PopTrailingHoles(_)
PopTrailingHoles(slots) ==
    IF slots # <<>> /\ ~slots[Len(slots)]
    THEN PopTrailingHoles(SubSeq(slots, 1, Len(slots) - 1))
    ELSE slots

\* Vec::remove(i), i 0-based
VecRemove(v, i) == SubSeq(v, 1, i) \o SubSeq(v, i + 2, Len(v))

\* the release of an interior slot, as a plausible slip would have it: the
\* slot is removed and the later ones shift down
ReleaseInteriorShifting(slots, suffix) == VecRemove(slots, suffix)

ReleaseInterior(slots, suffix) == [slots EXCEPT ![suffix + 1] = FALSE]

release_prefix_index(reg, display_name) ==
    LET popped(prefix, s2) ==
            IF s2 = <<>>
            THEN [reg EXCEPT !.prefixes = MapDel(@, prefix)]
            ELSE [reg EXCEPT !.prefixes = MapPut(@, prefix, s2)]
        released(prefix, suffix, slots) ==
            IF Len(slots) >= 1 /\ suffix < Len(slots) - 1
            THEN [reg EXCEPT !.prefixes = MapPut(@, prefix, ReleaseInterior(slots, suffix))]
            ELSE popped(prefix, PopTrailingHoles(IF suffix < Len(slots)
                                                 THEN VecRemove(slots, suffix) ELSE slots))
        parsed(prefix, suffix) ==
            IF prefix \notin DOMAIN reg.prefixes THEN reg
            ELSE released(prefix, suffix, reg.prefixes[prefix])
        split(hash) ==
            parsed(IF hash = 0 THEN display_name ELSE SubSeq(display_name, 1, hash - 1),
                   IF hash = 0 THEN 0
                   ELSE ParseOrZero(SubSeq(display_name, hash + 1, Len(display_name))))
    IN  split(FirstToken(display_name, "#", 1))

\* make_unique_name: the registry afterwards and the name
make_unique_name(reg, prefix) ==
    LET named(a) ==
            [reg  |-> a.reg,
             name |-> IF a.idx = 0 THEN prefix ELSE prefix \o <<"#">> \o Decimal(a.idx)]
    IN  named(acquire_prefix_index(reg, prefix))

update_max_length(reg) ==
    [reg EXCEPT !.max_display_name_length = MaxOf(DOMAIN reg.nr_enabled_by_length)]

\* DisplayNameRegistry::set_enabled; a name's length is its number of bytes
set_enabled(reg, display_name, enabled) ==
    LET counted(length, counts, old) ==
            IF enabled
            THEN update_max_length([reg EXCEPT !.nr_enabled_by_length = MapPut(counts, length, old + 1)])
            ELSE IF old <= 1
            THEN update_max_length([reg EXCEPT !.nr_enabled_by_length = MapDel(counts, length)])
            ELSE update_max_length([reg EXCEPT !.nr_enabled_by_length = MapPut(counts, length, old - 1)])
        looked(length, counts) ==
            counted(length, counts, IF length \in DOMAIN counts THEN counts[length] ELSE 0)
    IN  looked(Len(display_name), reg.nr_enabled_by_length)

\* DisplayNameRegistry::change: the registry afterwards, the Option returned,
\* and whether the call panicked ("Names cannot contain #")
DisplayNameRegistry_change(reg, prev_display_name, new_prefix) ==
    LET named(u) ==
            [reg   |-> set_enabled(u.reg, u.name, TRUE),
             name  |-> SomeName(u.name),
             panic |-> FALSE]
        released(r2) ==
            IF prev_display_name.some /\ ~new_prefix.some
            THEN [reg |-> r2, name |-> NoName, panic |-> FALSE]
            ELSE named(make_unique_name(r2, new_prefix.v))
        disabled(r1) ==
            released(IF prev_display_name.some
                     THEN release_prefix_index(r1, prev_display_name.v) ELSE r1)
    IN  IF new_prefix.some /\ \E i \in 1..Len(new_prefix.v) : new_prefix.v[i] = "#"
        THEN [reg |-> reg, name |-> NoName, panic |-> TRUE]
        ELSE disabled(IF prev_display_name.some /\ new_prefix.some
                      THEN set_enabled(reg, prev_display_name.v, FALSE) ELSE reg)

\* --------------------------------------------------------------- shell.rs

\* Option<String> of byte strings (command, password, pending rename)
NoBytes == [some |-> FALSE, v |-> <<>>]
SomeBytes(b) == [some |-> TRUE, v |-> b]

\* u8::is_ascii_whitespace on tokens
IsWhitespace(t) == t \in {SP, LF, "TAB"}

\* u8::to_ascii_lowercase on tokens
ToLower(t) == IF t = "Password:" \/ t = "PASSWORD:" THEN "password:" ELSE t

\* data.split(|b| b == LF): the pieces between the newlines
RECURSIVE SplitLines(_)
SplitLines(data) ==
    LET cut(nl) ==
            IF nl = 0 THEN <<data>>
            ELSE <<SubSeq(data, 1, nl - 1)>> \o SplitLines(SubSeq(data, nl + 1, Len(data)))
    IN  cut(FirstToken(data, LF, 1))

RECURSIVE JoinLines(_)
JoinLines(lines) ==
    IF lines = <<>> THEN <<>>
    ELSE IF Len(lines) = 1 THEN lines[1]
    ELSE lines[1] \o <<LF>> \o JoinLines(Tail(lines))

RECURSIVE DropBlank(_)
DropBlank(lines) ==
    IF lines = <<>> THEN <<>>
    ELSE (IF \A i \in 1..Len(Head(lines)) : IsWhitespace(Head(lines)[i])
          THEN <<>> ELSE <<Head(lines)>>) \o DropBlank(Tail(lines))

strip_newlines(data) == JoinLines(DropBlank(SplitLines(data)))

\* trim_ascii_bytes
trim_ascii_bytes(data) ==
    LET trimmed(keep) ==
            IF keep = {} THEN <<>>
            ELSE SubSeq(data, CHOOSE i \in keep : \A j \in keep : i <= j,
                              CHOOSE i \in keep : \A j \in keep : i >= j)
    IN  trimmed({i \in 1..Len(data) : ~IsWhitespace(data[i])})

\* the literal part of build_init_string (shell.rs:119-131), one token per line written
InitLiteral ==
    <<"unsetopt zle 2>/dev/null", LF,
      "stty -echo -onlcr -ctlecho;...;PROMPT_COMMAND=;TERM=ansi;unset HISTFILE;">>

\* build_init_string: the registry afterwards and the init string
build_init_string(callbacks, rnd) ==
    LET built(a) ==
            [callbacks   |-> a.reg,
             init_string |-> InitLiteral \o <<"PS1=", "\"">> \o a.p1 \o <<"\"", "\"">> \o a.p2
                             \o <<LF, "\"", LF>>]
    IN  built(CallbackRegistry_add(callbacks, <<"prompt">>, SeenPrompt, TRUE, rnd))

\* RemoteShell::new; rndPrefix and rndPrompt the two outcomes of random_string
RemoteShell_new(id, hostname, display_name, command, password, rndPrefix, rndPrompt) ==
    LET made(b) ==
            [id           |-> id,
             hostname     |-> hostname,
             display_name |-> display_name,
             enabled      |-> TRUE,
             state        |-> "NotStarted",
             pid          |-> id + 1,
             master_fd    |-> "open",
             read_buffer  |-> <<>>,
             write_buffer |-> <<>>,
             last_printed_line |-> <<>>,
             read_in_state_not_started |-> <<>>,
             init_string  |-> b.init_string,
             init_string_sent |-> FALSE,
             command      |-> command,
             password     |-> password,
             callbacks    |-> b.callbacks]
    IN  made(build_init_string(CallbackRegistry_new(rndPrefix), rndPrompt))

\* What one call on a shell did besides changing the shell: the payloads
\* written to its PTY (w), the texts given to the console (out), the SIGKILLs
\* sent to its process group (kills).
Ctx(sh) == [sh |-> sh, w |-> <<>>, out |-> <<>>, kills |-> 0]

rebuild_init_string(c, rnd) ==
    LET rebuilt(b) == [c EXCEPT !.sh.callbacks = b.callbacks, !.sh.init_string = b.init_string]
    IN  rebuilt(build_init_string(c.sh.callbacks, rnd))

\* change_state, as a plausible slip would have it: read_in_state_not_started
\* is kept
change_state_keeping(c, new_state) ==
    IF new_state # c.sh.state THEN [c EXCEPT !.sh.state = new_state] ELSE c

\* RemoteShell::change_state (shell.rs:146-159)
change_state(c, new_state) ==
    IF new_state # c.sh.state
    THEN [c EXCEPT !.sh.read_in_state_not_started =
                        IF c.sh.state = "NotStarted" THEN <<>> ELSE @,
                   !.sh.state = new_state]
    ELSE c

write_to_pty(c, data) == [c EXCEPT !.w = Append(@, data)]

\* the gate of dispatch_write, as a plausible slip would have it: the
\* enabled flag not consulted
dispatch_gate_ignoring_enabled(sh) == sh.state # "Dead"

\* the gate of dispatch_write
dispatch_gate(sh) == sh.state # "Dead" /\ sh.enabled

\* dispatch_write: the context afterwards and the bool returned
dispatch_write(c, buf) ==
    IF dispatch_gate(c.sh) THEN [c |-> write_to_pty(c, buf), ok |-> TRUE]
    ELSE [c |-> c, ok |-> FALSE]

\* dispatch_command, as a plausible slip would have it: Running after every write
dispatch_command_any_state(c, command) ==
    LET written(d) == IF d.ok THEN change_state(d.c, "Running") ELSE d.c
    IN  written(dispatch_write(c, command))

dispatch_command(c, command) ==
    LET written(d) == IF d.ok /\ d.c.sh.state = "Idle" THEN change_state(d.c, "Running") ELSE d.c
    IN  written(dispatch_write(c, command))

print_lines(c, lines) ==
    LET printed(cleaned) ==
            IF cleaned = <<>> THEN c
            ELSE [c EXCEPT !.out = Append(@, cleaned),
                           !.sh.last_printed_line =
                               SubSeq(cleaned, LastToken(cleaned, LF) + 1, Len(cleaned))]
    IN  printed(strip_newlines(lines))

\* the flag disconnect leaves in `enabled`, as a plausible slip would have it
disconnect_keeps_enabled(sh) == sh.enabled

\* the flag disconnect leaves in `enabled`
disconnect_enabled(sh) == FALSE

\* disconnect, as a plausible slip would have it: the buffers not cleared
disconnect_keeping_buffers(c) ==
    LET flushed(c1) ==
            IF c1.sh.read_in_state_not_started # <<>>
            THEN print_lines([c1 EXCEPT !.sh.read_in_state_not_started = <<>>],
                             c1.sh.read_in_state_not_started)
            ELSE c1
    IN  change_state(flushed([c EXCEPT !.kills = @ + 1,
                                       !.sh.enabled = disconnect_enabled(c.sh)]),
                     "Dead")

\* RemoteShell::disconnect (shell.rs:180-192)
disconnect(c) ==
    LET flushed(c1) ==
            IF c1.sh.read_in_state_not_started # <<>>
            THEN print_lines([c1 EXCEPT !.sh.read_in_state_not_started = <<>>],
                             c1.sh.read_in_state_not_started)
            ELSE c1
    IN  change_state(flushed([c EXCEPT !.kills = @ + 1,
                                       !.sh.read_buffer = <<>>,
                                       !.sh.write_buffer = <<>>,
                                       !.sh.enabled = disconnect_enabled(c.sh)]),
                     "Dead")

AuthenticityLine == "The authenticity of host "
HostChangedLine  == "REMOTE HOST IDENTIFICATION HAS CHANG"

\* ssh's question about an unknown host key, as a plausible slip would have
\* it: never recognised
authenticity_line_never(line) == FALSE

\* whether a line read in NotStarted is ssh's question about an unknown host
\* key (shell.rs:323)
authenticity_line(line) == \E i \in 1..Len(line) : line[i] = AuthenticityLine

\* the fast path of handle_data (shell.rs:267-274, 343-350): whether it applies
fast_path(sh) ==
    /\ sh.state = "Running"
    /\ ~any_in(sh.callbacks, sh.read_buffer)
    /\ LastToken(sh.read_buffer, LF) # 0

\* the printing of the fast path, as a plausible slip would have it: the
\* buffer cut at the first newline (position for rposition)
fast_path_print_first(c) ==
    LET cut(first_nl) ==
            print_lines([c EXCEPT !.sh.read_buffer = SubSeq(@, first_nl + 1, Len(@))],
                        SubSeq(c.sh.read_buffer, 1, first_nl - 1))
    IN  cut(FirstToken(c.sh.read_buffer, LF, 1))

\* the printing of the fast path (shell.rs:268-272, 344-348)
fast_path_print(c) ==
    LET cut(last_nl) ==
            print_lines([c EXCEPT !.sh.read_buffer = SubSeq(@, last_nl + 1, Len(@))],
                        SubSeq(c.sh.read_buffer, 1, last_nl - 1))
    IN  cut(LastToken(c.sh.read_buffer, LF))

\* the SeenPrompt branch, as a plausible slip would have it: no state change
seen_prompt_ignored(c, interactive, rnd) == c

\* the SeenPrompt branch of handle_data (shell.rs:296-311)
seen_prompt(c, interactive, rnd) ==
    LET run(a) ==
            write_to_pty(write_to_pty(write_to_pty(
                [c EXCEPT !.sh.command = NoBytes, !.sh.callbacks = a.reg],
                <<"PS1=", "\"">> \o a.p1 \o <<"\"", "\"">> \o a.p2 \o <<LF, "\"", LF>>),
                c.sh.command.v),
                <<"exit 2>/dev/null", LF>>)
    IN  IF interactive THEN change_state(c, "Idle")
        ELSE IF c.sh.command.some
        THEN run(CallbackRegistry_add(c.sh.callbacks, <<"real prompt ends">>, NoneAction, TRUE, rnd))
        ELSE c

\* One turn of the line loop of handle_data (shell.rs:290-351) on context h,
\* which also carries pending_rename, the log of the lines processed and
\* whether the function has returned.
handle_line(h, interactive, rnd) ==
    LET again(hh) ==
            IF ~hh.ret /\ fast_path(hh.c.sh)
            THEN [hh EXCEPT !.c = fast_path_print(hh.c), !.ret = TRUE]
            ELSE hh
        done(c, printed, ret) ==
            [c |-> c, printed |-> printed, ret |-> ret, pending_rename |-> h.pending_rename]
        entry(line, p, o) ==
            [h EXCEPT !.c = o.c, !.ret = o.ret, !.pending_rename = o.pending_rename,
                      !.log = Append(@, [line |-> line, before |-> h.c.sh.state,
                                         callbacks |-> h.c.sh.callbacks,
                                         command |-> h.c.sh.command,
                                         result |-> p.result, printed |-> o.printed,
                                         after |-> o.c.sh.state])]
        not_started(line, c2) ==
            IF authenticity_line(line)
            THEN done(disconnect(print_lines(c2,
                     trim_ascii_bytes(line) \o
                     <<" Closing connection. Consider manually connecting or using ssh-keyscan.">>)),
                     TRUE, TRUE)
            ELSE IF \E i \in 1..Len(line) : line[i] = HostChangedLine
            THEN done(print_lines(c2,
                     <<"Remote host identification has changed. Consider manually connecting or using ssh-keyscan.">>),
                     TRUE, FALSE)
            ELSE done(c2, FALSE, FALSE)
        branch(line, p, c1) ==
            IF p.result.some
            THEN CASE p.result.action.kind = "SeenPrompt" ->
                        done(seen_prompt(c1, interactive, rnd), FALSE, FALSE)
                   [] p.result.action.kind = "Rename" ->
                        [done(c1, FALSE, FALSE) EXCEPT !.pending_rename =
                            IF p.result.action.new_name # <<>>
                            THEN SomeBytes(p.result.action.new_name)
                            ELSE SomeBytes(h.c.sh.hostname)]
                   [] OTHER -> done(c1, FALSE, FALSE)
            ELSE IF h.c.sh.state = "Idle" \/ h.c.sh.state = "Running"
            THEN done(print_lines(c1, line), TRUE, FALSE)
            ELSE IF h.c.sh.state = "NotStarted"
            THEN not_started(line, [c1 EXCEPT !.sh.read_in_state_not_started = @ \o line])
            ELSE done(c1, FALSE, FALSE)
        processed(line, lf, p) ==
            again(entry(line, p, branch(line, p,
                [h.c EXCEPT !.sh.read_buffer = SubSeq(@, lf + 1, Len(@)),
                            !.sh.callbacks = p.reg])))
        taken(line, lf) == processed(line, lf, CallbackRegistry_process(h.c.sh.callbacks, line))
        cut(lf) == taken(SubSeq(h.c.sh.read_buffer, 1, lf), lf)
    IN  cut(FirstToken(h.c.sh.read_buffer, LF, 1))

RECURSIVE line_loop(_, _, _)
line_loop(h, interactive, rnd) ==
    IF h.ret \/ FirstToken(h.c.sh.read_buffer, LF, 1) = 0 THEN h
    ELSE line_loop(handle_line(h, interactive, rnd), interactive, rnd)

\* the password auto-reply of handle_data (shell.rs:277-287): whether it applies
password_prompt(sh) ==
    /\ sh.state = "NotStarted"
    /\ sh.password.some
    /\ \E i \in 1..Len(sh.read_buffer) : ToLower(sh.read_buffer[i]) = "password:"

\* the same, as a plausible slip would have it: init_string_sent not consulted
send_init_unflagged(sh) == sh.state = "NotStarted"

\* whether handle_data sends the init string (shell.rs:354-358)
send_init(sh) == sh.state = "NotStarted" /\ ~sh.init_string_sent

\* the early return of handle_data, as a plausible slip would have it: left out
dead_returns_never(sh) == FALSE

\* the early return of handle_data on a Dead shell (shell.rs:256-258)
dead_returns(sh) == sh.state = "Dead"

\* RemoteShell::handle_data: the context afterwards with pending_rename (what
\* is returned), the log of the lines the loop processed, and which path was taken
handle_data(sh, new_data, interactive, rnd) ==
    LET began(c, path) ==
            [c |-> c, pending_rename |-> NoBytes, log |-> <<>>, ret |-> FALSE, path |-> path]
        looped(h1) ==
            IF ~h1.ret /\ send_init(h1.c.sh)
            THEN [h1 EXCEPT !.c = [write_to_pty(h1.c, h1.c.sh.init_string)
                                      EXCEPT !.sh.init_string_sent = TRUE]]
            ELSE h1
        extended(c1) ==
            IF fast_path(c1.sh)
            THEN began(fast_path_print(c1), "fast")
            ELSE IF password_prompt(c1.sh)
            THEN began([write_to_pty(c1, c1.sh.password.v \o <<LF>>)
                           EXCEPT !.sh.read_buffer = <<>>], "password")
            ELSE looped(line_loop(began(c1, "lines"), interactive, rnd))
    IN  IF dead_returns(sh) THEN began(Ctx(sh), "dead")
        ELSE extended([Ctx(sh) EXCEPT !.sh.read_buffer = @ \o new_data])

\* print_unfinished_line, as a plausible slip would have it: the state not
\* consulted
print_unfinished_line_any_state(c) ==
    LET processed(buf, p) ==
            IF ~p.result.some
            THEN print_lines([c EXCEPT !.sh.read_buffer = <<>>, !.sh.callbacks = p.reg], buf)
            ELSE [c EXCEPT !.sh.read_buffer = <<>>, !.sh.callbacks = p.reg]
    IN  IF c.sh.read_buffer # <<>>
        THEN processed(c.sh.read_buffer, CallbackRegistry_process(c.sh.callbacks, c.sh.read_buffer))
        ELSE c

\* RemoteShell::print_unfinished_line (shell.rs:363-370)
print_unfinished_line(c) ==
    LET processed(buf, p) ==
            IF ~p.result.some
            THEN print_lines([c EXCEPT !.sh.read_buffer = <<>>, !.sh.callbacks = p.reg], buf)
            ELSE [c EXCEPT !.sh.read_buffer = <<>>, !.sh.callbacks = p.reg]
    IN  IF c.sh.state = "Running" /\ c.sh.read_buffer # <<>>
        THEN processed(c.sh.read_buffer, CallbackRegistry_process(c.sh.callbacks, c.sh.read_buffer))
        ELSE c

\* ------------------------------------------------------- host_syntax.rs

RECURSIVE Flatten(_)
Flatten(seqs) == IF seqs = <<>> THEN <<>> ELSE Head(seqs) \o Flatten(Tail(seqs))

\* str::split(sep): the pieces between the separators, empty ones included
RECURSIVE SplitOn(_, _)
SplitOn(data, sep) ==
    LET cut(i) ==
            IF i = 0 THEN <<data>>
            ELSE <<SubSeq(data, 1, i - 1)>> \o SplitOn(SubSeq(data, i + 1, Len(data)), sep)
    IN  cut(FirstToken(data, sep, 1))

\* SYNTAX_RE = <([0-9,\-]+)> : the leftmost match, as the indices of "<" and ">"
SYNTAX_RE_find(input) ==
    LET closes(i) == {j \in (i + 2)..Len(input) :
                         /\ input[j] = ">"
                         /\ \A k \in (i + 1)..(j - 1) :
                                IsDigit(input[k]) \/ input[k] = "," \/ input[k] = "-"}
        least(S) == CHOOSE i \in S : \A j \in S : i <= j
        from(s) == [found |-> TRUE, start |-> s, end |-> least(closes(s))]
        leftmost(starts) ==
            IF starts = {} THEN [found |-> FALSE, start |-> 0, end |-> 0]
            ELSE from(least(starts))
    IN  leftmost({i \in 1..Len(input) : input[i] = "<" /\ closes(i) # {}})

AllDigits(s) == s # <<>> /\ \A i \in 1..Len(s) : IsDigit(s[i])

\* INTERVAL_RE = ^([0-9]+)(-[0-9]+)?$ : whether it matches, and the two groups
\* (end = start when the second group is absent)
INTERVAL_RE_captures(interval) ==
    LET groups(a, b) == [matches |-> AllDigits(a) /\ AllDigits(b), start |-> a, end |-> b]
        cut(dash) ==
            groups(IF dash = 0 THEN interval ELSE SubSeq(interval, 1, dash - 1),
                   IF dash = 0 THEN interval ELSE SubSeq(interval, dash + 1, Len(interval)))
    IN  cut(FirstToken(interval, "-", 1))

\* format!("{:0>width$}", i)
ZeroPad(digits, width) ==
    [k \in 1..(IF width > Len(digits) THEN width - Len(digits) ELSE 0) |-> "0"] \o digits

RECURSIVE NumbersFrom(_, _, _, _, _)
NumbersFrom(i, e, increment, zero_pad, width) ==
    LET from(formatted) ==
            IF i = e THEN <<formatted>>
            ELSE <<formatted>> \o NumbersFrom(i + increment, e, increment, zero_pad, width)
    IN  from(IF zero_pad THEN ZeroPad(Decimal(i), width) ELSE Decimal(i))

\* i64::MAX in decimal
I64Max == <<"9", "2", "2", "3", "3", "7", "2", "0", "3", "6", "8", "5", "4", "7", "7", "5",
            "8", "0", "7">>

\* the digits without their leading zeros
RECURSIVE StripZeros(_)
StripZeros(s) == IF Len(s) > 1 /\ s[1] = "0" THEN StripZeros(Tail(s)) ELSE s

\* whether the number written by the digits s is at most the one written by t
\* (neither has leading zeros)
RECURSIVE DigitsLeq(_, _)
DigitsLeq(s, t) ==
    IF Len(s) # Len(t) THEN Len(s) < Len(t)
    ELSE IF s = <<>> THEN TRUE
    ELSE IF s[1] # t[1] THEN DigitValue(s[1]) < DigitValue(t[1])
    ELSE DigitsLeq(Tail(s), Tail(t))

\* s.parse::<i64>().unwrap_or(0) of a string of digits: 0 when the number
\* does not fit an i64
parse_i64(s) ==
    IF AllDigits(s) /\ DigitsLeq(StripZeros(s), I64Max) THEN DecimalValue(StripZeros(s)) ELSE 0

\* zero_pad of iter_numbers, as a plausible slip would have it: only the
\* first endpoint looked at
zero_pad_start_only(start, end) == Len(start) > 1 /\ start[1] = "0"

\* zero_pad of iter_numbers (host_syntax.rs:18)
zero_pad(start, end) ==
    \/ (Len(start) > 1 /\ start[1] = "0")
    \/ (Len(end) > 1 /\ end[1] = "0")

iter_numbers(start, end) ==
    LET counted(s, e) ==
            NumbersFrom(s, e, IF s <= e THEN 1 ELSE -1, zero_pad(start, end),
                        IF Len(start) >= Len(end) THEN Len(start) ELSE Len(end))
    IN  counted(parse_i64(start), parse_i64(end))

RECURSIVE expand_syntax(_)
expand_syntax(input) ==
    LET numbered(prefix, suffix, nums) ==
            Flatten([k \in 1..Len(nums) |-> expand_syntax(prefix \o nums[k] \o suffix)])
        captured(prefix, suffix, caps) ==
            IF ~caps.matches THEN <<>>
            ELSE numbered(prefix, suffix, iter_numbers(caps.start, caps.end))
        listed(prefix, suffix, items) ==
            Flatten([k \in 1..Len(items) |->
                        captured(prefix, suffix, INTERVAL_RE_captures(items[k]))])
        found(m) ==
            IF ~m.found THEN <<input>>
            ELSE listed(SubSeq(input, 1, m.start - 1), SubSeq(input, m.end + 1, Len(input)),
                        SplitOn(SubSeq(input, m.start + 1, m.end - 1), ","))
    IN  found(SYNTAX_RE_find(input))

\* -------------------------------------------------------- completion.rs

\* the limit add_history_words compares the size of history_words with
HistoryLimit == 10000

\* CompletionState::add_history_words: the size of history_words afterwards,
\* held its size before and fresh the number of distinct words of the line
\* that are longer than one byte and not yet in the set (inserting any other
\* word leaves the set as it is)
add_history_words(held, fresh) == IF held < HistoryLimit THEN held + fresh ELSE held

\* ----------------------------------------------------- shell_manager.rs

ShellManager_new == [shells |-> EmptyMap, next_id |-> 0]

\* ShellManager::add_shell: the manager and the display-name registry
\* afterwards, and the id returned
add_shell(mgr, display_names, hostname, command, password, rndPrefix, rndPrompt) ==
    LET added(id, ch) ==
            [mgr |-> [shells  |-> IF ch.panic THEN mgr.shells
                                  ELSE MapPut(mgr.shells, id,
                                     RemoteShell_new(id, hostname,
                                                     IF ch.name.some THEN ch.name.v ELSE hostname,
                                                     command, password, rndPrefix, rndPrompt)),
                      next_id |-> id + 1],
             display_names |-> ch.reg,
             id |-> id,
             panic |-> ch.panic]
    IN  added(mgr.next_id, DisplayNameRegistry_change(display_names, NoName, SomeName(hostname)))

\* remove_shell, as a plausible slip would have it: the id is given back
remove_shell_reusing(mgr, id) == [mgr EXCEPT !.shells = MapDel(@, id), !.next_id = id]

\* ShellManager::remove_shell
remove_shell(mgr, id) == [mgr EXCEPT !.shells = MapDel(@, id)]

\* the order of the bytes that occur in display names
ByteOrder == <<"#", "0", "1", "2", "3", "4", "5", "6", "7", "8", "9", "a", "x", "y">>

\* String::cmp(a, b) = Less
RECURSIVE StrLess(_, _)
StrLess(a, b) ==
    IF b = <<>> THEN FALSE
    ELSE IF a = <<>> THEN TRUE
    ELSE IF Head(a) = Head(b) THEN StrLess(Tail(a), Tail(b))
    ELSE FirstToken(ByteOrder, Head(a), 1) < FirstToken(ByteOrder, Head(b), 1)

\* the stable sort by display name of the shells `ids` (taken in id order)
RECURSIVE SortByName(_, _)
SortByName(shells, ids) ==
    LET placed(first) == <<first>> \o SortByName(shells, ids \ {first})
    IN  IF ids = {} THEN <<>>
        ELSE placed(CHOOSE i \in ids : \A j \in ids \ {i} :
                        \/ StrLess(shells[i].display_name, shells[j].display_name)
                        \/ shells[i].display_name = shells[j].display_name /\ i < j)

\* ShellManager::all_shells / all_shells_mut: the ids in display-name order
all_shells(mgr) == SortByName(mgr.shells, DOMAIN mgr.shells)

\* count_awaited_processes: (awaited, total)
count_awaited_processes(mgr) ==
    [awaited |-> Cardinality({i \in DOMAIN mgr.shells :
                                 mgr.shells[i].enabled /\ mgr.shells[i].state # "Idle"}),
     total   |-> Cardinality({i \in DOMAIN mgr.shells : mgr.shells[i].enabled})]

\* count_by_state: (idle, running, not_started, dead, disabled)
count_by_state(mgr) ==
    LET on(states) == Cardinality({i \in DOMAIN mgr.shells :
                          mgr.shells[i].enabled /\ mgr.shells[i].state \in states})
    IN  [idle |-> on({"Idle"}), running |-> on({"Running"}),
         not_started |-> on({"NotStarted"}), dead |-> on({"Terminated", "Dead"}),
         disabled |-> Cardinality({i \in DOMAIN mgr.shells : ~mgr.shells[i].enabled})]

all_terminated(mgr) ==
    /\ DOMAIN mgr.shells # {}
    /\ \A i \in DOMAIN mgr.shells : mgr.shells[i].state \in {"Terminated", "Dead"}

\* -------------------------------------------------- control_commands.rs

Ids == 0..(MaxShells - 1)

\* The manager and the display-name registry during one step of the program,
\* with what the step did besides: per shell the payloads written to its PTY
\* (w), the console output in order (out, id = -1 for the program's own
\* messages), the process groups sent SIGKILL (kills), and whether it panicked.
World(mgr, display_names) ==
    [mgr |-> mgr, names |-> display_names,
     w |-> [i \in Ids |-> <<>>], out |-> <<>>, kills |-> <<>>, removed |-> <<>>,
     panic |-> FALSE]

\* what the step keeps of a shell it takes out of the manager: the state the
\* command found it in and the state it is taken out in
\* what the drop of a RemoteShell does: the OwnedFd it holds closes the
\* descriptor (shell.rs:54)
drop_shell(sh) == [sh EXCEPT !.master_fd = "closed"]

Removal(found, sh) ==
    [id |-> sh.id, found |-> found.state, state |-> sh.state,
     master_fd |-> drop_shell(sh).master_fd]

console_output(world, text) == [world EXCEPT !.out = Append(@, [id |-> -1, text |-> text])]

\* `for shell in ids { Op(shell) }` for calls that touch one shell each
ForEach(world, ids, Op(_)) ==
    LET cs    == [k \in 1..Len(ids) |-> Op(Ctx(world.mgr.shells[ids[k]]))]
        inIds == {ids[k] : k \in 1..Len(ids)}
        at(id) == CHOOSE k \in 1..Len(ids) : ids[k] = id
    IN  [world EXCEPT
            !.mgr.shells = [id \in DOMAIN @ |-> IF id \in inIds THEN cs[at(id)].sh ELSE @[id]],
            !.w = [id \in DOMAIN @ |-> IF id \in inIds THEN @[id] \o cs[at(id)].w ELSE @[id]],
            !.out = @ \o Flatten([k \in 1..Len(ids) |->
                        [j \in 1..Len(cs[k].out) |-> [id |-> ids[k], text |-> cs[k].out[j]]]]),
            !.kills = @ \o Flatten([k \in 1..Len(ids) |->
                        [j \in 1..cs[k].kills |-> cs[k].sh.pid]])]

SeqRange(q) == {q[k] : k \in 1..Len(q)}

\* str::split_whitespace
SplitWhitespace(data) ==
    LET nonEmpty(piece) == piece # <<>>
    IN  SelectSeq(SplitOn(data, SP), nonEmpty)

\* str::trim
Trim(data) == trim_ascii_bytes(data)

\* glob::Pattern::matches for patterns of literal bytes, "*" and "?"
RECURSIVE glob_matches(_, _)
glob_matches(pat, str) ==
    IF pat = <<>> THEN str = <<>>
    ELSE IF Head(pat) = "*"
    THEN \E k \in 1..(Len(str) + 1) : glob_matches(Tail(pat), SubSeq(str, k, Len(str)))
    ELSE /\ str # <<>>
         /\ Head(pat) = "?" \/ Head(pat) = Head(str)
         /\ glob_matches(Tail(pat), Tail(str))

RECURSIVE select_expanded(_, _, _, _)
select_expanded(expanded, shells, order, selected) ==
    IF expanded = <<>> THEN selected
    ELSE LET matches(id) ==
                 /\ id \notin SeqRange(selected)
                 /\ \/ glob_matches(Head(expanded), shells[id].display_name)
                    \/ glob_matches(Head(expanded), shells[id].last_printed_line)
         IN  select_expanded(Tail(expanded), shells, order,
                             selected \o SelectSeq(order, matches))

RECURSIVE select_patterns(_, _, _, _)
select_patterns(patterns, shells, order, acc) ==
    LET chosen(selected) ==
            select_patterns(Tail(patterns), shells, order,
                [ids |-> selected,
                 out |-> IF ~(Len(selected) > Len(acc.ids)) /\ order # <<>>
                         THEN Append(acc.out, Head(patterns) \o <<" not found">>)
                         ELSE acc.out])
    IN  IF patterns = <<>> THEN acc
        ELSE chosen(select_expanded(expand_syntax(Head(patterns)), shells, order, acc.ids))

\* selected_shells_indices, as a plausible slip would have it: the empty
\* pattern and "*" go through the patterns like any other
selected_shells_indices_no_wildcard(command, mgr) ==
    select_patterns(SplitWhitespace(command), mgr.shells, all_shells(mgr),
                    [ids |-> <<>>, out |-> <<>>])

\* selected_shells_indices: the selected shells in the order selected (by
\* their ids: the positions in all_shells do not move during a command) and
\* the console messages
selected_shells_indices(command, mgr) ==
    LET from(order) ==
            IF command = <<>> \/ command = <<"*">>
            THEN [ids |-> order, out |-> <<>>]
            ELSE select_patterns(SplitWhitespace(command), mgr.shells, order,
                                 [ids |-> <<>>, out |-> <<>>])
    IN  from(all_shells(mgr))

\* the world after the messages of a selection were printed
selection_printed(world, sel) ==
    [world EXCEPT !.out = @ \o [k \in 1..Len(sel.out) |-> [id |-> -1, text |-> sel.out[k]]]]

CmdOk == [kind |-> "Ok", hosts |-> <<>>]
CmdQuit == [kind |-> "Quit", hosts |-> <<>>]
CmdError == [kind |-> "Error", hosts |-> <<>>]
CmdAddHosts(hosts) == [kind |-> "AddHosts", hosts |-> hosts]

\* whether toggle_shells touches a shell (control_commands.rs:329, 349)
toggle_applies(sh) == sh.state # "Dead"

RECURSIVE toggle_each(_, _, _, _)
toggle_each(world, ids, to, interactive) ==
    IF ids = <<>> THEN world
    ELSE LET sh == world.mgr.shells[Head(ids)]
             w1 == IF toggle_applies(sh)
                   THEN [world EXCEPT
                            !.names = IF sh.enabled # to /\ interactive
                                      THEN set_enabled(@, sh.display_name, to) ELSE @,
                            !.mgr.shells[sh.id].enabled = to]
                   ELSE world
         IN  toggle_each(w1, Tail(ids), to, interactive)

toggle_shells(command, enable, world, interactive) ==
    LET all_same(ids) ==
            \A k \in 1..Len(ids) :
                \/ world.mgr.shells[ids[k]].state = "Dead"
                \/ world.mgr.shells[ids[k]].enabled = enable
        toggled(sel, w0) ==
            IF command # <<>> /\ command # <<"*">> /\ sel.ids # <<>> /\ all_same(sel.ids)
            THEN toggle_each(w0, all_shells(w0.mgr), ~enable, interactive)
            ELSE toggle_each(w0, sel.ids, enable, interactive)
        selected(sel) == toggled(sel, selection_printed(world, sel))
    IN  selected(selected_shells_indices(command, world.mgr))

RECURSIVE remove_dead(_, _)
remove_dead(world, ids) ==
    LET released(id, ch) ==
            remove_dead([world EXCEPT !.names = ch.reg, !.mgr = remove_shell(@, id),
                                      !.removed = Append(@, Removal(world.mgr.shells[id],
                                                                   world.mgr.shells[id]))],
                        Tail(ids))
        removed(id) ==
            released(id, DisplayNameRegistry_change(world.names,
                             SomeName(world.mgr.shells[id].display_name), NoName))
    IN  IF ids = <<>> THEN world ELSE removed(Head(ids))

do_reconnect(params, world) ==
    LET dead(id) == world.mgr.shells[id].state = "Dead"
        reconnected(w0, to_remove) ==
            [world  |-> remove_dead(w0, to_remove),
             result |-> IF to_remove = <<>> THEN CmdOk
                        ELSE CmdAddHosts([k \in 1..Len(to_remove) |->
                                             world.mgr.shells[to_remove[k]].hostname])]
        selected(sel) == reconnected(selection_printed(world, sel), SelectSeq(sel.ids, dead))
    IN  selected(selected_shells_indices(params, world.mgr))

do_add(params, world) ==
    LET added(hosts) ==
            [world |-> world, result |-> IF hosts = <<>> THEN CmdError ELSE CmdAddHosts(hosts)]
    IN  added(SplitWhitespace(params))

RECURSIVE purge_each(_, _)
purge_each(world, to_remove) ==
    LET disconnected(id, w1) ==
            purge_each([w1 EXCEPT !.mgr = remove_shell(@, id),
                                  !.removed = Append(@, Removal(world.mgr.shells[id],
                                                               w1.mgr.shells[id]))],
                       Tail(to_remove))
        released(id, ch) ==
            disconnected(id, ForEach([world EXCEPT !.names = ch.reg], <<id>>, disconnect))
        purged(first) ==
            released(first.id, DisplayNameRegistry_change(world.names, SomeName(first.name), NoName))
    IN  IF to_remove = <<>> THEN world ELSE purged(Head(to_remove))

do_purge(params, world) ==
    LET disabled(id) == ~world.mgr.shells[id].enabled
        purged(w0, ids) ==
            [world  |-> purge_each(w0, [k \in 1..Len(ids) |->
                            [id |-> ids[k], name |-> world.mgr.shells[ids[k]].display_name]]),
             result |-> CmdOk]
        selected(sel) == purged(selection_printed(world, sel), SelectSeq(sel.ids, disabled))
    IN  selected(selected_shells_indices(params, world.mgr))

\* the body of the loop of do_rename for one shell
rename_one(c, name, rnd) ==
    LET renamed(a) ==
            dispatch_command([c EXCEPT !.sh.callbacks = a.reg],
                             <<"/bin/echo ", "\"">> \o a.p1 \o <<"\"", "\"">> \o a.p2
                             \o <<"\"", SP>> \o name \o <<LF>>)
    IN  IF c.sh.enabled /\ name # <<>>
        THEN renamed(CallbackRegistry_add(c.sh.callbacks, <<"rename">>, Rename(<<>>), FALSE, rnd))
        ELSE c

do_rename(params, world, rnd) ==
    LET one(c) == rename_one(c, Trim(params), rnd)
    IN  [world |-> ForEach(world, all_shells(world.mgr), one), result |-> CmdOk]

\* letter.to_ascii_lowercase().as_bytes()[0] - b'a' + 1 for the letters the
\* model types; any other byte makes the u8 subtraction overflow
CtrlLetters == {"c", "d", "z", "C"}
ctrl_char(letter) ==
    CASE letter \in {"c", "C"} -> "^C" [] letter = "d" -> "^D" [] letter = "z" -> "^Z"
      [] OTHER -> "^?"

do_send_ctrl(params, world, wraps) ==
    LET enabled(id) == world.mgr.shells[id].enabled
        sent(letter, sel) ==
            LET one(c) == dispatch_write(c, <<ctrl_char(letter[1])>>).c
            IN  [world  |-> ForEach(selection_printed(world, sel),
                                    SelectSeq(sel.ids, enabled), one),
                 result |-> CmdOk]
        remaining(split) ==
            IF Len(split) <= 1 THEN <<>>
            ELSE Flatten([k \in 2..Len(split) |->
                             IF k = 2 THEN split[k] ELSE <<SP>> \o split[k]])
        parsed(split) ==
            IF split = <<>> \/ Len(Head(split)) # 1 THEN [world |-> world, result |-> CmdError]
            ELSE IF Head(split)[1] \notin CtrlLetters /\ ~wraps
            THEN [world |-> [world EXCEPT !.panic = TRUE], result |-> CmdOk]
            ELSE sent(Head(split), selected_shells_indices(remaining(split), world.mgr))
    IN  parsed(SplitWhitespace(params))

do_reset_prompt(params, world, rnd) ==
    LET rebuilt(c1) == dispatch_command(c1, c1.sh.init_string)
        one(c) == rebuilt(rebuild_init_string(c, rnd))
        selected(sel) ==
            [world |-> ForEach(selection_printed(world, sel), sel.ids, one), result |-> CmdOk]
    IN  selected(selected_shells_indices(params, world.mgr))

\* shell_words::quote of a name of plain bytes; "#" makes it quoted
quote(name) ==
    IF \E i \in 1..Len(name) : name[i] = "#" THEN <<"'">> \o name \o <<"'">> ELSE name

do_export_vars(world) ==
    LET enabled(id) == world.mgr.shells[id].enabled
        exported(ids) ==
            LET rank(id) == (CHOOSE k \in 1..Len(ids) : ids[k] = id) - 1
                first(c) == dispatch_command(c,
                                <<"export MASH_RANK=">> \o Decimal(rank(c.sh.id))
                                \o <<" MASH_NAME=">> \o quote(c.sh.hostname)
                                \o <<" MASH_DISPLAY_NAME=">> \o quote(c.sh.display_name) \o <<LF>>)
                second(c) == dispatch_command(c,
                                <<"export MASH_NR_SHELLS=">> \o Decimal(Len(ids)) \o <<LF>>)
            IN  [world |-> ForEach(ForEach(world, ids, first), ids, second), result |-> CmdOk]
    IN  exported(SelectSeq(all_shells(world.mgr), enabled))

do_show_read_buffer(params, world) ==
    LET one(c) == IF c.sh.read_in_state_not_started # <<>>
                  THEN print_lines([c EXCEPT !.sh.read_in_state_not_started = <<>>],
                                   c.sh.read_in_state_not_started)
                  ELSE c
        selected(sel) ==
            [world |-> ForEach(selection_printed(world, sel), sel.ids, one), result |-> CmdOk]
    IN  selected(selected_shells_indices(params, world.mgr))

do_list(params, world) ==
    LET listed(sel, w0) ==
            [world |-> [w0 EXCEPT !.out = @ \o [k \in 1..Len(sel.ids) |->
                            [id |-> -1, text |-> <<"info">> \o w0.mgr.shells[sel.ids[k]].display_name]]],
             result |-> CmdOk]
        selected(sel) == listed(sel, selection_printed(world, sel))
    IN  selected(selected_shells_indices(params, world.mgr))

\* the commands whose effects are outside the state modelled (the help text,
\* the working directory, the terminal echo, the log file, the debug flags)
LocalCommands == {"help", "chdir", "hide_password", "set_log"}

do_set_debug(params, world) ==
    LET parsed(split) ==
            [world |-> world,
             result |-> IF split = <<>> \/ split[1] \notin {<<"y">>, <<"n">>, <<"Y">>, <<"N">>}
                        THEN CmdError ELSE CmdOk]
    IN  parsed(SplitWhitespace(params))

\* control_commands::dispatch: the world afterwards and the CmdResult; rnd
\* the outcome of random_string, wraps whether u8 arithmetic wraps on overflow
dispatch(line, world, interactive, rnd, wraps) ==
    LET run(cmd, params) ==
            CASE cmd = "list" -> do_list(params, world)
              [] cmd = "quit" -> [world |-> world, result |-> CmdQuit]
              [] cmd = "enable" ->
                   [world |-> toggle_shells(params, TRUE, world, interactive), result |-> CmdOk]
              [] cmd = "disable" ->
                   [world |-> toggle_shells(params, FALSE, world, interactive), result |-> CmdOk]
              [] cmd = "reconnect" -> do_reconnect(params, world)
              [] cmd = "add" -> do_add(params, world)
              [] cmd = "purge" -> do_purge(params, world)
              [] cmd = "rename" -> do_rename(params, world, rnd)
              [] cmd = "send_ctrl" -> do_send_ctrl(params, world, wraps)
              [] cmd = "reset_prompt" -> do_reset_prompt(params, world, rnd)
              [] cmd = "set_debug" -> do_set_debug(params, world)
              [] cmd = "export_vars" -> do_export_vars(world)
              [] cmd = "show_read_buffer" -> do_show_read_buffer(params, world)
              [] cmd \in LocalCommands -> [world |-> world, result |-> CmdOk]
              [] OTHER -> [world |-> world, result |-> CmdError]
        named(cmd_name, params) == run(IF Len(cmd_name) = 1 THEN cmd_name[1] ELSE "?", params)
        cut(ws) ==
            named(IF ws = 0 THEN line ELSE SubSeq(line, 1, ws - 1),
                  IF ws = 0 THEN <<>> ELSE SubSeq(line, ws + 1, Len(line)))
    IN  IF line = <<>> THEN [world |-> world, result |-> CmdOk]
        ELSE cut(FirstToken(line, SP, 1))

\* ---------------------------------------------------------------- main.rs

\* capacity of the request and of the response channel of the input thread
InputChannelCapacity == 1

\* exit status of a non-interactive run interrupted by SIGINT: 128 + SIGINT
ExitOnSigint == 130

\* spawn_shell: ok is whether spawn_ssh and the fd clone succeeded
spawn_shell(world, host_str, command, password, ok, rnd) ==
    LET spawned(a) ==
            [world EXCEPT !.mgr = a.mgr, !.names = a.display_names, !.panic = a.panic]
    IN  IF ok
        THEN spawned(add_shell(world.mgr, world.names, host_str, command, password, rnd, rnd))
        ELSE console_output(world, <<"Failed to spawn ssh to ">> \o host_str)

RECURSIVE spawn_all(_, _, _, _, _, _)
spawn_all(world, hosts, command, password, oks, rnd) ==
    IF hosts = <<>> \/ world.panic THEN world
    ELSE spawn_all(spawn_shell(world, Head(hosts), command, password, Head(oks), rnd),
                   Tail(hosts), command, password, Tail(oks), rnd)

kill_all(world) ==
    LET killed(ids) ==
            [world EXCEPT !.kills = @ \o [k \in 1..Len(ids) |-> world.mgr.shells[ids[k]].pid]]
    IN  killed(all_shells(world.mgr))

\* `for shell in mgr.all_shells_mut() { if shell.enabled { shell.write_to_pty(byte) } }`
write_to_enabled(world, byte) ==
    LET one(c) == IF c.sh.enabled THEN write_to_pty(c, <<byte>>) ELSE c
    IN  ForEach(world, all_shells(world.mgr), one)

\* the handling of a pending signal at the top of the loop (main.rs:271-311)
handle_signal(world, sig, interactive) ==
    CASE sig = "Int"  -> IF interactive THEN write_to_enabled(world, "^C") ELSE kill_all(world)
      [] sig = "Tstp" -> write_to_enabled(world, "^Z")
      [] OTHER        -> world

\* the same, as a plausible slip would have it: input_requested not consulted
request_wanted_unguarded(interactive, input_requested) == interactive

\* whether the top of the loop considers asking for input (main.rs:319)
request_wanted(interactive, input_requested) == interactive /\ ~input_requested

\* the same, as a plausible slip would have it: the count not consulted
all_idle_unchecked(awaited) == TRUE

\* whether the top of the loop asks at once (main.rs:321)
all_idle(awaited) == awaited = 0

\* print_unfinished_line on every shell (main.rs:325-327, 482-484)
flush_unfinished(world) == ForEach(world, all_shells(world.mgr), print_unfinished_line)

\* The loop body up to select! (main.rs:270-341): the world afterwards, where
\* the program goes, and whether a ReadLine request is sent
loop_top(world, sig, interactive, input_requested, drain_deadline) ==
    LET stay(w1, pc) ==
            [world |-> w1, pc |-> pc, sends |-> FALSE,
             input_requested |-> input_requested, drain_deadline |-> drain_deadline]
        signalled(w1) ==
            IF sig = "Int" /\ ~interactive THEN stay(w1, "exited")
            ELSE IF all_terminated(w1.mgr) THEN stay(w1, "cleanup")
            ELSE IF request_wanted(interactive, input_requested)
            THEN IF all_idle(count_awaited_processes(w1.mgr).awaited)
                 THEN [stay(flush_unfinished(w1), "select") EXCEPT
                          !.sends = TRUE, !.input_requested = TRUE, !.drain_deadline = FALSE]
                 ELSE [stay(w1, "select") EXCEPT !.drain_deadline = TRUE]
            ELSE stay(w1, "select")
    IN  signalled(handle_signal(world, sig, interactive))

\* the Data arm (main.rs:346-362): the world afterwards and the lines handled
on_data(world, id, data, interactive, rnd) ==
    LET changed(w1, ch) ==
            IF ch.panic THEN [w1 EXCEPT !.panic = TRUE]
            ELSE [w1 EXCEPT !.names = ch.reg,
                            !.mgr.shells[id].display_name =
                                 IF ch.name.some THEN ch.name.v ELSE @]
        kept(h, w1) ==
            [world |-> IF h.pending_rename.some
                       THEN changed(w1, DisplayNameRegistry_change(w1.names,
                                            SomeName(w1.mgr.shells[id].display_name),
                                            SomeName(h.pending_rename.v)))
                       ELSE w1,
             log |-> h.log, path |-> h.path]
        handled(h) ==
            LET keep(c) == h.c
            IN  kept(h, ForEach(world, <<id>>, keep))
    IN  IF id \notin DOMAIN world.mgr.shells
        THEN [world |-> world, log |-> <<>>, path |-> "absent"]
        ELSE handled(handle_data(world.mgr.shells[id], data, interactive, rnd))

\* the exit code after a Closed event, as a plausible slip would have it:
\* the last code wins
closed_exit_code_last(exit_code, code) == code

\* the exit code after a Closed event (main.rs:366)
closed_exit_code(exit_code, code) == IF code > exit_code THEN code ELSE exit_code

\* the Closed arm, as a plausible slip would have it: the shell is dropped
on_closed_removing(world, id, code, interactive) ==
    IF id \notin DOMAIN world.mgr.shells THEN world
    ELSE [world EXCEPT !.mgr = remove_shell(@, id)]

\* the Closed arm, as a plausible slip would have it: the shells kept in a
\* vector and the ShellId used as the position in it
on_closed_by_position(world, id, code, interactive) ==
    LET disconnected(w1, t) ==
            IF interactive
            THEN [w1 EXCEPT !.names = set_enabled(@, w1.mgr.shells[t].display_name, FALSE)]
            ELSE w1
        reported(w0, t) == disconnected(ForEach(w0, <<t>>, disconnect), t)
        found(t) ==
            reported(IF code # 0 /\ interactive
                     THEN console_output(world, <<"Error talking to ">>
                                                \o world.mgr.shells[t].display_name)
                     ELSE world, t)
        at(ids) ==
            IF id < Cardinality(ids)
            THEN found(CHOOSE t \in ids : Cardinality({j \in ids : j < t}) = id)
            ELSE world
    IN  at(DOMAIN world.mgr.shells)

\* the Closed arm (main.rs:363-378)
on_closed(world, id, code, interactive) ==
    LET disconnected(w1) ==
            IF interactive
            THEN [w1 EXCEPT !.names = set_enabled(@, w1.mgr.shells[id].display_name, FALSE)]
            ELSE w1
        reported(w0) == disconnected(ForEach(w0, <<id>>, disconnect))
    IN  IF id \notin DOMAIN world.mgr.shells THEN world
        ELSE reported(IF code # 0 /\ interactive
                      THEN console_output(world, <<"Error talking to ">>
                                                 \o world.mgr.shells[id].display_name)
                      ELSE world)

\* the handling of InputEvent::Line (main.rs:391-461): the world afterwards
\* and the CmdResult of a control command (Ok for the other lines); oks says
\* which of the spawns asked for succeed
on_line(world, line, interactive, command, password, oks, rnd, wraps) ==
    LET dispatched(d) ==
            CASE d.result.kind = "Error" ->
                   [world |-> console_output(d.world, <<"error">>), result |-> d.result]
              [] d.result.kind = "AddHosts" ->
                   [world |-> spawn_all(d.world, d.result.hosts, command, password, oks, rnd),
                    result |-> d.result]
              [] OTHER -> d
        eof(c) == IF c.sh.enabled /\ c.sh.state # "Dead"
                  THEN dispatch_command(c, <<"^D">>) ELSE c
        plain(c) == dispatch_command(c, line \o <<LF>>)
    IN  IF line # <<>> /\ Head(line) = ":"
        THEN dispatched(dispatch(Tail(line), world, interactive, rnd, wraps))
        ELSE IF line # <<>> /\ Head(line) = "!"
        THEN [world |-> world, result |-> CmdOk]
        ELSE IF line = <<"^D">>
        THEN [world |-> ForEach(world, all_shells(world.mgr), eof), result |-> CmdOk]
        ELSE [world |-> ForEach(world, all_shells(world.mgr), plain), result |-> CmdOk]

\* InputEvent::Interrupted, as a plausible slip would have it: the state of
\* the shell not consulted
on_interrupted_all_enabled(world) ==
    LET one(c) == IF c.sh.enabled THEN write_to_pty(c, <<"^C">>) ELSE c
    IN  ForEach(world, all_shells(world.mgr), one)

\* InputEvent::Interrupted (main.rs:464-471)
on_interrupted(world) ==
    LET one(c) == IF c.sh.enabled /\ c.sh.state = "Running"
                  THEN write_to_pty(c, <<"^C">>) ELSE c
    IN  ForEach(world, all_shells(world.mgr), one)

\* the same, as a plausible slip would have it: the arm waits for the request
\* instead of its absence
drain_arm_enabled_requested(drain_deadline, input_requested) ==
    drain_deadline /\ input_requested

\* the guard of the drain timer arm (main.rs:478)
drain_arm_enabled(drain_deadline, input_requested) == drain_deadline /\ ~input_requested

\* ------------------------------------------------------------ variables

VARIABLES
    cbReg,      \* a CallbackRegistry under test
    cbIssued,   \* trigger returned by add |-> what was registered and what
                \* the process(trigger + LF) calls so far returned
    dnReg,      \* a DisplayNameRegistry under test
    dnHeld,     \* holder |-> the name it holds (Option)
    dnEnabled,  \* the holders whose name was last told enabled to the registry
    dnLast,     \* the last call on dnReg and what it returned
    interactive,      \* main: stdin and stdout are terminals and no command
    command,          \* main: Option, the command of a non-interactive run
    password,         \* main: Option
    mgr,              \* main: the ShellManager
    display_names,    \* main: the DisplayNameRegistry
    input_requested,  \* main
    next_signal,      \* main: Option<SignalEvent>, "None" when empty
    drain_deadline,   \* main: whether the Option holds an instant
    exit_code,        \* main
    pc,               \* where main is: "top" of the loop, at "select", in
                      \* "cleanup" after the loop, "exited", "panicked"
    exit_status,      \* the status the process exited with, -1 before
    input_req,        \* the request channel to the input thread
    input_thread,     \* the input thread: in "recv", in "readline", "stopped"
    input_resp,       \* the response channel of the input thread
    readers,          \* id |-> whether the reader task of that shell still
                      \* runs (open) or has sent Closed, with the exit code
    fx,               \* what the last step did besides changing the variables
    events,           \* where the handlers run in any order: how many Data
                      \* events and input lines were handled
    shell,            \* a RemoteShell under test
    shInteractive,    \* the `interactive` its handle_data is called with
    shLast,           \* the last call on it: its arguments, the state and the
                      \* enabled flag it found, and what it did
    hsCall,           \* the last call of host_syntax: its arguments and result
    history_words,    \* CompletionState: how many words history_words holds
    csCall,           \* the last add_history_words: how many words of the line
                      \* are longer than one byte and not yet held
    pty               \* what the remote of shell 0 wrote to its PTY and the
                      \* reader task has not read yet

cbVars == <<cbReg, cbIssued>>
dnVars == <<dnReg, dnHeld, dnEnabled, dnLast>>
argVars == <<interactive, command, password>>
inputVars == <<input_req, input_thread, input_resp>>
mainVars == <<mgr, display_names, input_requested, next_signal, drain_deadline, exit_code,
              pc, exit_status, readers, fx, events>>
sessionVars == <<argVars, mainVars, inputVars>>
shVars == <<shell, shInteractive, shLast>>
fnVars == <<hsCall, history_words, csCall, pty>>
vars == <<cbVars, dnVars, sessionVars, shVars, fnVars>>

CbIdle == cbReg = CallbackRegistry_new("r1") /\ cbIssued = EmptyMap
DnIdle ==
    /\ dnReg = DisplayNameRegistry_new
    /\ dnHeld = EmptyMap
    /\ dnEnabled = {}
    /\ dnLast = [op |-> "new", holder |-> 0, name |-> NoName]

FnIdle ==
    /\ hsCall = [op |-> "idle"]
    /\ history_words = 0
    /\ csCall = 0
    /\ pty = <<>>

\* what a step leaves in fx
Effects(act, id, world, readline) ==
    [act |-> act, id |-> id, w |-> world.w, kills |-> world.kills, readline |-> readline,
     removed |-> world.removed, line |-> NoBytes, result |-> "None", hosts |-> <<>>,
     data |-> <<>>]

NoEffects == Effects("start", -1, World(ShellManager_new, DisplayNameRegistry_new), FALSE)

SessionIdle ==
    /\ interactive = FALSE /\ command = NoBytes /\ password = NoBytes
    /\ mgr = ShellManager_new
    /\ display_names = DisplayNameRegistry_new
    /\ input_requested = FALSE /\ next_signal = "None" /\ drain_deadline = FALSE
    /\ exit_code = 0 /\ pc = "exited" /\ exit_status = 0
    /\ input_req = <<>> /\ input_thread = "stopped" /\ input_resp = <<>>
    /\ readers = EmptyMap
    /\ fx = NoEffects
    /\ events = 0

ShellIdle ==
    /\ shell = RemoteShell_new(0, <<"a">>, <<"a">>, NoBytes, NoBytes, "r1", "r1")
    /\ shInteractive = FALSE
    /\ shLast = [op |-> "idle"]

\* ------------------------------------- the callback registry on its own

\* the names the program registers, and one with slashes (test_add_replaces_slashes_in_name)
CbNames == {<<"prompt">>, <<"rename">>, <<"a", "/", "b">>}

\* the actions the program registers (shell.rs:133, shell.rs:301, control_commands.rs:448)
CbActions == {SeenPrompt, Rename(<<>>), NoneAction}

\* lines that hold no registered trigger
CbOtherLines(reg) ==
    {<<"x", LF>>, reg.common_prefix \o <<"/", LF>>, <<"mash-", "x", "/", LF>>}

CbInit ==
    /\ \E rnd \in RandomStrings : cbReg = CallbackRegistry_new(rnd)
    /\ cbIssued = EmptyMap
    /\ DnIdle
    /\ SessionIdle
    /\ ShellIdle
    /\ FnIdle

CbAdd ==
    /\ cbReg.nr_generated < MaxCbAdds
    /\ \E name \in CbNames, action \in CbActions, repeat \in BOOLEAN, rnd \in RandomStrings :
         LET r == CallbackRegistry_add(cbReg, name, action, repeat, rnd)
         IN  /\ cbReg' = r.reg
             /\ cbIssued' = MapPut(cbIssued, r.p1 \o r.p2,
                                   [action |-> action, repeat |-> repeat, results |-> <<>>])
    /\ UNCHANGED <<dnVars, sessionVars, shVars, fnVars>>

CbProcessTrigger ==
    \E t \in DOMAIN cbIssued :
        /\ Len(cbIssued[t].results) < 2
        /\ LET r == CallbackRegistry_process(cbReg, t \o <<LF>>)
           IN  /\ cbReg' = r.reg
               /\ cbIssued' = [cbIssued EXCEPT ![t].results = @ \o <<r.result>>]
               /\ UNCHANGED <<dnVars, sessionVars, shVars, fnVars>>

CbProcessOther ==
    \E line \in CbOtherLines(cbReg) :
        /\ cbReg' = CallbackRegistry_process(cbReg, line).reg
        /\ UNCHANGED <<cbIssued, dnVars, sessionVars, shVars, fnVars>>

CbNext == CbAdd \/ CbProcessTrigger \/ CbProcessOther

SpecCallbacks == CbInit /\ [][CbNext]_vars

\* C5: for every trigger returned by add, process(trigger + LF) returns the
\* registered action on the first call; the second call returns None if and
\* only if the entry was added with repeat = false, and the action again
\* when repeat = true.
C5_ProcessRoundTrip ==
    \A t \in DOMAIN cbIssued :
        LET e == cbIssued[t]
        IN  /\ Len(e.results) >= 1 => e.results[1] = Some(e.action)
            /\ Len(e.results) >= 2 =>
                 /\ (e.results[2] = NoMatch) <=> ~e.repeat
                 /\ e.repeat => e.results[2] = Some(e.action)

\* both cases of C5 have happened: a one-shot and a repeating trigger, each processed twice
C5_Witness ==
    \E t1, t2 \in DOMAIN cbIssued :
        /\ ~cbIssued[t1].repeat /\ Len(cbIssued[t1].results) = 2
        /\ cbIssued[t2].repeat /\ Len(cbIssued[t2].results) = 2

\* ----------------------------------- the display-name registry on its own

Holders == 1..MaxHolders

\* requested prefixes: "a#1" is as long as "bcd"
DnPrefixes == {<<"a">>, <<"b", "c", "d">>}

\* the calls that increment a counter are taken while it is below the cap
DnRoom(name) ==
    LET counts == dnReg.nr_enabled_by_length
    IN  \A l \in DOMAIN counts : counts[l] < MaxCount

DnInit ==
    /\ dnReg = DisplayNameRegistry_new
    /\ dnHeld = [h \in Holders |-> NoName]
    /\ dnEnabled = {}
    /\ dnLast = [op |-> "new", holder |-> 0, name |-> NoName]
    /\ CbIdle
    /\ SessionIdle
    /\ ShellIdle
    /\ FnIdle

\* change(None, P)
DnAllocate ==
    \E h \in Holders, p \in DnPrefixes :
        /\ ~dnHeld[h].some
        /\ DnRoom(p)
        /\ LET r == DisplayNameRegistry_change(dnReg, NoName, SomeName(p))
           IN  /\ dnReg' = r.reg
               /\ dnHeld' = [dnHeld EXCEPT ![h] = r.name]
               /\ dnEnabled' = dnEnabled \cup {h}
               /\ dnLast' = [op |-> "allocate", holder |-> h, name |-> r.name, prefix |-> p]
        /\ UNCHANGED <<cbVars, sessionVars, shVars, fnVars>>

\* change(prev, None) of a name that is held
DnRelease ==
    \E h \in Holders :
        /\ dnHeld[h].some
        /\ LET r == DisplayNameRegistry_change(dnReg, dnHeld[h], NoName)
           IN  /\ dnReg' = r.reg
               /\ dnHeld' = [dnHeld EXCEPT ![h] = NoName]
               /\ dnEnabled' = dnEnabled \ {h}
               /\ dnLast' = [op |-> "release", holder |-> h, name |-> r.name]
        /\ UNCHANGED <<cbVars, sessionVars, shVars, fnVars>>

\* change(prev, P') of a name that is held
DnRename ==
    \E h \in Holders, p \in DnPrefixes :
        /\ dnHeld[h].some
        /\ DnRoom(p)
        /\ LET r == DisplayNameRegistry_change(dnReg, dnHeld[h], SomeName(p))
           IN  /\ dnReg' = r.reg
               /\ dnHeld' = [dnHeld EXCEPT ![h] = r.name]
               /\ dnEnabled' = dnEnabled \cup {h}
               /\ dnLast' = [op |-> "rename", holder |-> h, name |-> r.name]
        /\ UNCHANGED <<cbVars, sessionVars, shVars, fnVars>>

\* set_enabled(name, e) of a name that is held
DnSetEnabled ==
    \E h \in Holders, e \in BOOLEAN :
        /\ dnHeld[h].some
        /\ e => DnRoom(dnHeld[h].v)
        /\ dnReg' = set_enabled(dnReg, dnHeld[h].v, e)
        /\ dnEnabled' = IF e THEN dnEnabled \cup {h} ELSE dnEnabled \ {h}
        /\ dnLast' = [op |-> "set_enabled", holder |-> h, name |-> dnHeld[h]]
        /\ UNCHANGED <<dnHeld, cbVars, sessionVars, shVars, fnVars>>

DnNext == DnAllocate \/ DnRelease \/ DnRename \/ DnSetEnabled

SpecNames == DnInit /\ [][DnNext]_vars

\* C6: after any sequence of change calls in which only held names are
\* released, the names currently held are pairwise distinct.
C6_HeldNamesDistinct ==
    \A h1, h2 \in DOMAIN dnHeld :
        (h1 # h2 /\ dnHeld[h1].some /\ dnHeld[h2].some) => dnHeld[h1].v # dnHeld[h2].v

\* two holders asked for the same prefix and hold "a" and "a#1", the last
\* call having given out again a slot that had been released
C6_Witness ==
    /\ \E h1, h2 \in DOMAIN dnHeld :
          dnHeld[h1] = SomeName(<<"a">>) /\ dnHeld[h2] = SomeName(<<"a", "#", "1">>)
    /\ dnLast.op = "allocate"
    /\ dnLast.name = SomeName(<<"a">>)
    /\ dnHeld[dnLast.holder] = dnLast.name
    /\ dnReg.prefixes[<<"a">>] = <<TRUE, TRUE>>

\* C7: after any sequence of change and set_enabled calls,
\* max_display_name_length equals the maximum length over the names that are
\* currently enabled (0 when no name is enabled).
C7_MaxLengthOfEnabled ==
    dnReg.max_display_name_length = MaxOf({Len(dnHeld[h].v) : h \in dnEnabled})

\* ------------------------------------------------ one RemoteShell on its own

\* the outcome of random_string in these runs
SessionRandoms == {"r1"}

Commands == {NoBytes, SomeBytes(<<"cmd">>)}

\* the password file was given: without one a password prompt is output
\* like any other
Passwords == {SomeBytes(<<"pw">>)}

Count(data, tok) == Cardinality({i \in 1..Len(data) : data[i] = tok})

\* a shell is given more data while its unfinished line and the lines stored
\* in NotStarted are within MaxBuf
DataRoom(sh) ==
    /\ Len(sh.read_buffer) - LastToken(sh.read_buffer, LF) <= MaxBuf
    /\ Count(sh.read_in_state_not_started, LF) <= MaxBuf

\* a trigger is registered while the registry has seen fewer than MaxCbAdds adds
TriggerRoom(sh) == sh.callbacks.nr_generated < MaxCbAdds

\* What the remote of shell sh may send in one read: output with and without
\* a newline, the lines ssh prints, a password prompt, and for every
\* registered trigger t the line the remote prints for it: alone, after a
\* trigger that is not registered, with the name asked for by :rename,
\* behind another line, and split over two reads.
ShellChunks(sh) ==
    LET triggers == DOMAIN sh.callbacks.callbacks
        renames  == {t \in triggers : sh.callbacks.callbacks[t].action.kind = "Rename"}
        stale    == sh.callbacks.common_prefix \o <<"/">>
    IN  {<<"x">>, <<SP>>, <<"x", LF>>, <<"x", LF, "x">>, <<AuthenticityLine, LF>>,
         <<AuthenticityLine, LF, "x", LF>>, <<HostChangedLine, LF>>, <<"Password:", SP>>}
        \cup {t \o <<LF>> : t \in triggers \ renames}
        \cup {<<"x", LF>> \o t \o <<LF>> : t \in triggers \ renames}
        \cup {stale \o t \o <<LF>> : t \in triggers \ renames}
        \cup {<<t[1]>> : t \in triggers}
        \cup {Tail(t) \o <<LF>> : t \in triggers \ renames}
        \cup {t \o <<"y", LF>> : t \in renames}

\* whether a line contains a registered SeenPrompt trigger
holds_prompt(line, callbacks) ==
    \E t \in DOMAIN callbacks.callbacks :
        callbacks.callbacks[t].action.kind = "SeenPrompt" /\ Contains(line, t)

\* whether in a line the first occurrence of the common prefix, taken up to
\* the next "/", is a registered SeenPrompt trigger
starts_prompt(line, callbacks) ==
    LET start == FirstWindow(line, callbacks.common_prefix)
        slash == IF start = 0 THEN 0 ELSE FirstToken(line, "/", start)
        found == SubSeq(line, start, slash)
    IN  /\ start # 0
        /\ slash # 0
        /\ found \in DOMAIN callbacks.callbacks
        /\ callbacks.callbacks[found].action.kind = "SeenPrompt"

\* how many of the payloads written are the password auto-reply of sh
PasswordWrites(sh, w) ==
    IF sh.password.some
    THEN Cardinality({k \in 1..Len(w) : w[k] = sh.password.v \o <<LF>>})
    ELSE 0

\* how many of the payloads handle_data wrote are the init string of sh
InitWrites(op, sh, w) ==
    IF op = "handle_data"
    THEN Cardinality({k \in 1..Len(w) : w[k] = sh.init_string})
    ELSE 0

\* What a call leaves in shLast: the call, the state and the enabled flag it
\* found, the payloads written to the PTY, the texts printed, and for
\* handle_data what happened to each line of the loop.
ShCall(op, arg, before, c, log) ==
    [op |-> op, arg |-> arg, state |-> before.state, enabled |-> before.enabled,
     w |-> c.w, out |-> c.out,
     password_writes |-> PasswordWrites(before, c.w),
     init_writes |-> InitWrites(op, before, c.w),
     log |-> [k \in 1..Len(log) |->
                 [before  |-> log[k].before,
                  command |-> log[k].command,
                  holds_prompt  |-> holds_prompt(log[k].line, log[k].callbacks),
                  starts_prompt |-> starts_prompt(log[k].line, log[k].callbacks),
                  action  |-> IF log[k].result.some THEN log[k].result.action.kind
                              ELSE "NoMatch",
                  printed |-> log[k].printed,
                  after   |-> log[k].after]]]

\* What a call leaves in shLast, the password writes and the init string
\* writes counted over all the calls so far
ShDid(op, arg, before, c, log) ==
    [ShCall(op, arg, before, c, log) EXCEPT !.password_writes = @ + shLast.password_writes,
                                            !.init_writes = @ + shLast.init_writes]

ShInit ==
    /\ shInteractive \in BOOLEAN
    /\ \E cmd \in Commands, pw \in Passwords, rnd \in SessionRandoms :
          /\ shInteractive => cmd = NoBytes
          /\ shell = RemoteShell_new(0, <<"a">>, <<"a">>, cmd, pw, rnd, rnd)
    /\ shLast = ShCall("new", <<>>, shell, Ctx(shell), <<>>)
    /\ CbIdle
    /\ DnIdle
    /\ SessionIdle
    /\ FnIdle

\* handle_data(new_data), as the Data arm calls it
ShHandleData ==
    LET handled(data, h) ==
            /\ DataRoom(h.c.sh)
            /\ shLast.password_writes < MaxPasswordWrites
            /\ shLast.init_writes < MaxInitWrites
            /\ shell' = h.c.sh
            /\ shLast' = ShDid("handle_data", data, shell, h.c, h.log)
            /\ UNCHANGED <<shInteractive, cbVars, dnVars, sessionVars, fnVars>>
    IN  \E data \in ShellChunks(shell), rnd \in SessionRandoms :
            handled(data, handle_data(shell, data, shInteractive, rnd))

\* dispatch_command(command), as the broadcast of a line and of ^D call it
ShDispatchCommand ==
    \E cmd \in {<<"ls", LF>>, <<"^D">>} :
        LET c == dispatch_command(Ctx(shell), cmd)
        IN  /\ shell' = c.sh
            /\ shLast' = ShDid("dispatch_command", cmd, shell, c, <<>>)
            /\ UNCHANGED <<shInteractive, cbVars, dnVars, sessionVars, fnVars>>

\* dispatch_write(buf), as :send_ctrl calls it
ShDispatchWrite ==
    LET c == dispatch_write(Ctx(shell), <<"^C">>).c
    IN  /\ shell' = c.sh
        /\ shLast' = ShDid("dispatch_write", <<"^C">>, shell, c, <<>>)
        /\ UNCHANGED <<shInteractive, cbVars, dnVars, sessionVars, fnVars>>

\* print_unfinished_line, as the loop calls it before a prompt
ShPrintUnfinishedLine ==
    LET c == print_unfinished_line(Ctx(shell))
    IN  /\ shell' = c.sh
        /\ shLast' = ShDid("print_unfinished_line", <<>>, shell, c, <<>>)
        /\ UNCHANGED <<shInteractive, cbVars, dnVars, sessionVars, fnVars>>

\* disconnect, as the Closed arm and :purge call it
ShDisconnect ==
    LET c == disconnect(Ctx(shell))
    IN  /\ shell' = c.sh
        /\ shLast' = ShDid("disconnect", <<>>, shell, c, <<>>)
        /\ UNCHANGED <<shInteractive, cbVars, dnVars, sessionVars, fnVars>>

\* shell.enabled = e, as toggle_shells does it
ShSetEnabled ==
    \E e \in BOOLEAN :
        /\ toggle_applies(shell)
        /\ shell' = [shell EXCEPT !.enabled = e]
        /\ shLast' = ShDid("set_enabled", <<>>, shell, Ctx(shell'), <<>>)
        /\ UNCHANGED <<shInteractive, cbVars, dnVars, sessionVars, fnVars>>

\* the body of :rename NAME for this shell
ShRename ==
    /\ shInteractive
    /\ TriggerRoom(shell)
    /\ \E rnd \in SessionRandoms :
          LET c == rename_one(Ctx(shell), <<"y">>, rnd)
          IN  /\ shell' = c.sh
              /\ shLast' = ShDid("rename", <<"y">>, shell, c, <<>>)
    /\ UNCHANGED <<shInteractive, cbVars, dnVars, sessionVars, fnVars>>

\* the body of :reset_prompt for this shell
ShResetPrompt ==
    /\ shInteractive
    /\ TriggerRoom(shell)
    /\ \E rnd \in SessionRandoms :
          LET c1 == rebuild_init_string(Ctx(shell), rnd)
              c  == dispatch_command(c1, c1.sh.init_string)
          IN  /\ shell' = c.sh
              /\ shLast' = ShDid("reset_prompt", <<>>, shell, c, <<>>)
    /\ UNCHANGED <<shInteractive, cbVars, dnVars, sessionVars, fnVars>>

ShNext ==
    \/ ShHandleData
    \/ ShDispatchCommand
    \/ ShDispatchWrite
    \/ ShPrintUnfinishedLine
    \/ ShDisconnect
    \/ ShSetEnabled
    \/ ShRename
    \/ ShResetPrompt

SpecShell == ShInit /\ [][ShNext]_vars

\* the lines the loop of the last handle_data processed
ShLines == IF shLast.op = "handle_data" THEN DOMAIN shLast.log ELSE {}

\* C8: dispatch_command on an enabled shell that is not Dead writes the bytes
\* given to the PTY; an Idle shell becomes Running, a Running or NotStarted
\* shell keeps its state.
C8_DispatchCommand ==
    shLast.op = "dispatch_command" /\ shLast.enabled /\ shLast.state # "Dead" =>
        /\ shLast.w = <<shLast.arg>>
        /\ shLast.state = "Idle" => shell.state = "Running"
        /\ shLast.state \in {"Running", "NotStarted"} => shell.state = shLast.state

\* an Idle, enabled shell was given a command, and a NotStarted one
C8_Witness ==
    /\ shLast.op = "dispatch_command"
    /\ shLast.enabled
    /\ shLast.state = "Idle"
    /\ shell.state = "Running"
    /\ shLast.w = <<shLast.arg>>

\* C9 as stated: in interactive mode every complete line that contains a
\* registered SeenPrompt trigger leaves the shell Idle and is not printed.
C9_LineWithPromptTrigger ==
    shInteractive =>
        \A k \in ShLines :
            shLast.log[k].holds_prompt =>
                shLast.log[k].after = "Idle" /\ ~shLast.log[k].printed

\* C9 with the lookup of CallbackRegistry::process: in interactive mode every
\* complete line in which the first occurrence of the common prefix, taken up
\* to the next "/", is a registered SeenPrompt trigger leaves the shell Idle
\* (from NotStarted, Running and Idle alike) and is not printed.
C9_LineStartingPromptTrigger ==
    shInteractive =>
        \A k \in ShLines :
            shLast.log[k].starts_prompt =>
                shLast.log[k].after = "Idle" /\ ~shLast.log[k].printed

\* a Running shell read its prompt in interactive mode
C9_Witness ==
    /\ shInteractive
    /\ \E k \in ShLines :
          /\ shLast.log[k].starts_prompt
          /\ shLast.log[k].before = "Running"
          /\ shLast.log[k].after = "Idle"
          /\ ~shLast.log[k].printed

\* the three payloads of the SeenPrompt branch are among the payloads written
WroteCommand(w, cmd) ==
    \E j \in 1..(Len(w) - 2) :
        /\ w[j][1] = "PS1="
        /\ w[j + 1] = cmd
        /\ w[j + 2] = <<"exit 2>/dev/null", LF>>

\* C10: in non-interactive mode with a command configured, the first
\* SeenPrompt seen in NotStarted moves the shell to Running and writes the
\* throwaway PS1 assignment, the command and the exit line to the PTY.
C10_FirstPromptRunsCommand ==
    ~shInteractive =>
        \A k \in ShLines :
            /\ shLast.log[k].action = "SeenPrompt"
            /\ shLast.log[k].before = "NotStarted"
            /\ shLast.log[k].command.some
            => /\ shLast.log[k].after = "Running"
               /\ WroteCommand(shLast.w, shLast.log[k].command.v)

\* the payloads were written and the shell is still NotStarted
C10_Witness ==
    /\ ~shInteractive
    /\ \E k \in ShLines :
          /\ shLast.log[k].action = "SeenPrompt"
          /\ shLast.log[k].before = "NotStarted"
          /\ shLast.log[k].command.some
          /\ shLast.log[k].after = "NotStarted"
          /\ WroteCommand(shLast.w, shLast.log[k].command.v)

\* ------------------------------------------------------------ the session

\* the host names given on the command line and to :add
Hosts == {<<"a">>}

ExitCodes == {0, 1}
Signals == {"Int", "Tstp", "Winch"}

\* a reader task (main.rs:48-108): whether it still runs, and the exit code
\* it sent in Closed when it ended
ReaderOpen == [open |-> TRUE, code |-> 0]
ReaderClosed(code) == [open |-> FALSE, code |-> code]

\* what the reader task of a shell that left the manager may still deliver
StrayChunks == {<<"x", LF>>}

\* the Data events the model follows keep the buffers within MaxBuf
WorldDataRoom(world, id) ==
    id \in DOMAIN world.mgr.shells => DataRoom(world.mgr.shells[id])

\* lines that register a trigger are typed while every registry has room
RegistersTrigger(line) ==
    /\ Len(line) >= 2
    /\ line[1] = ":"
    /\ \/ line[2] = "reset_prompt"
       \/ line[2] = "rename" /\ Trim(SubSeq(line, 3, Len(line))) # <<>>

ManagerTriggerRoom(m) == \A i \in DOMAIN m.shells : TriggerRoom(m.shells[i])

AllSpawn == [k \in 1..MaxShells |-> TRUE]

\* which of the spawns a line asks for succeed
SpawnOutcomes(line) ==
    IF Len(line) >= 2 /\ line[1] = ":" /\ line[2] \in {"add", "reconnect"}
    THEN [1..MaxShells -> BOOLEAN] ELSE {AllSpawn}

\* whether the u8 arithmetic of :send_ctrl wraps (release) or panics (debug)
WrapOutcomes(line) ==
    IF Len(line) >= 2 /\ line[1] = ":" /\ line[2] = "send_ctrl" THEN BOOLEAN ELSE {FALSE}

\* the state when the loop is entered: the hosts of the command line were
\* spawned (main.rs:228-246), some of the spawns may have failed
SessionStart(spawns) ==
    LET spawned(w) ==
            /\ mgr = w.mgr
            /\ display_names = w.names
            /\ readers = [i \in DOMAIN w.mgr.shells |-> ReaderOpen]
            /\ fx = Effects("start", -1, w, FALSE)
    IN  /\ interactive \in BOOLEAN
        /\ command \in Commands
        /\ interactive => command = NoBytes
        /\ password \in Passwords
        /\ \E n \in 1..MaxShells, oks \in spawns, h \in Hosts, rnd \in SessionRandoms :
              /\ \A k \in (n + 1)..MaxShells : oks[k]
              /\ spawned(spawn_all(World(ShellManager_new, DisplayNameRegistry_new),
                                   [k \in 1..n |-> h], command, password,
                                   [k \in 1..n |-> oks[k]], rnd))
        /\ input_requested = FALSE
        /\ next_signal = "None"
        /\ drain_deadline = FALSE
        /\ exit_code = 0
        /\ exit_status = -1
        /\ events = 0
        /\ input_req = <<>>
        /\ input_resp = <<>>
        /\ CbIdle
        /\ DnIdle
        /\ ShellIdle
        /\ FnIdle

\* what every step of the program writes back
Commit(world, act, id, readline) ==
    /\ mgr' = world.mgr
    /\ display_names' = world.names
    /\ fx' = Effects(act, id, world, readline)

\* what the handling of an input line writes back: the line and the
\* CmdResult are kept with what the step did
CommitLine(world, act, line, result) ==
    /\ mgr' = world.mgr
    /\ display_names' = world.names
    /\ fx' = [Effects(act, -1, world, FALSE) EXCEPT !.line = SomeBytes(line),
                                                    !.result = result.kind,
                                                    !.hosts = result.hosts]

\* what the handling of a Data event writes back: the bytes of the event are
\* kept with what the step did
CommitData(world, act, id, data) ==
    /\ mgr' = world.mgr
    /\ display_names' = world.names
    /\ fx' = [Effects(act, id, world, FALSE) EXCEPT !.data = data]

\* the reader tasks after a step: one more for every shell spawned
ReadersAfter(world) ==
    [i \in DOMAIN readers \cup DOMAIN world.mgr.shells |->
        IF i \in DOMAIN readers THEN readers[i] ELSE ReaderOpen]

\* after the loop (main.rs:499-511)
Cleanup ==
    /\ pc = "cleanup"
    /\ interactive => Len(input_req) < InputChannelCapacity
    /\ Commit(kill_all(World(mgr, display_names)), "Cleanup", -1, FALSE)
    /\ input_req' = IF interactive THEN Append(input_req, "Shutdown") ELSE input_req
    /\ pc' = "exited"
    /\ exit_status' = exit_code
    /\ UNCHANGED <<input_requested, next_signal, drain_deadline, exit_code, readers,
                   events, input_thread, input_resp, argVars, cbVars, dnVars, shVars, fnVars>>

\* --------------------------------------- the handlers of the loop, in any order

\* what the remote of shell sh may send in one read: a line of output, the
\* line ssh prints for an unknown host (alone and with more behind it in the
\* same read), and for every registered trigger the
\* line the remote prints for it (with a name asked for by :rename, which
\* the remote's shell expanded to "y" or to "#")
HandlerChunks(sh) ==
    LET triggers == DOMAIN sh.callbacks.callbacks
        renames  == {t \in triggers : sh.callbacks.callbacks[t].action.kind = "Rename"}
    IN  {<<"x", LF>>, <<AuthenticityLine, LF>>, <<AuthenticityLine, LF, "x", LF>>}
        \cup {t \o <<LF>> : t \in triggers \ renames}
        \cup {t \o <<"y", LF>> : t \in renames}
        \cup {t \o <<"#", LF>> : t \in renames}

\* the patterns the user gives to control commands
Patterns(m) ==
    {<<>>, <<"x">>} \cup {m.shells[i].display_name : i \in DOMAIN m.shells}

WithPattern(cmd, pat) == IF pat = <<>> THEN <<":", cmd>> ELSE <<":", cmd, SP>> \o pat

\* the lines the user types
UserLines(m) ==
    {<<"ls">>, <<"^D">>, <<"!", "ls">>, <<>>, <<":">>,
     <<":", "quit">>, <<":", "export_vars">>, <<":", "help">>, <<":", "bogus">>,
     <<":", "rename">>, <<":", "rename", SP, "y">>,
     <<":", "add">>, <<":", "add", SP, "a">>, <<":", "add", SP, "#">>,
     <<":", "add", SP, "a", "<", "1", "-", "2", ">">>,
     <<":", "enable", SP, "*">>, <<":", "disable", SP, "*">>,
     <<":", "send_ctrl">>, <<":", "send_ctrl", SP, "c">>, <<":", "send_ctrl", SP, "c", "c">>,
     <<":", "send_ctrl", SP, "1">>, <<":", "set_debug">>, <<":", "set_debug", SP, "y">>}
    \cup {WithPattern(cmd, pat) :
            cmd \in {"enable", "disable", "reconnect", "purge", "reset_prompt",
                     "show_read_buffer", "list"},
            pat \in Patterns(m)}

\* the loop is at select! and did not break at the top (main.rs:313-316)
AtSelect == pc = "select" /\ ~all_terminated(mgr)

HInit ==
    /\ SessionStart([1..MaxShells -> BOOLEAN])
    /\ pc = "select"
    /\ input_thread = "stopped"

\* the Data arm (main.rs:346-362)
HData ==
    LET handled(id, data, r) ==
            /\ WorldDataRoom(r.world, id)
            /\ CommitData(r.world, "Data", id, data)
            /\ pc' = IF r.world.panic THEN "panicked" ELSE pc
    IN  /\ AtSelect
        /\ events < MaxEvents
        /\ events' = events + 1
        /\ \E id \in DOMAIN readers, rnd \in SessionRandoms :
              /\ readers[id].open
              /\ \E data \in (IF id \in DOMAIN mgr.shells THEN HandlerChunks(mgr.shells[id])
                              ELSE StrayChunks) :
                    handled(id, data,
                            on_data(World(mgr, display_names), id, data, interactive, rnd))
        /\ UNCHANGED <<input_requested, next_signal, drain_deadline, exit_code, exit_status,
                       readers, inputVars, argVars, cbVars, dnVars, shVars, fnVars>>

\* the Closed arm (main.rs:363-378), after the reader task saw the end of the
\* PTY and reaped the child (main.rs:98-107)
HClosed ==
    /\ AtSelect
    /\ \E id \in DOMAIN readers, code \in ExitCodes :
          /\ readers[id].open
          /\ readers' = [readers EXCEPT ![id] = ReaderClosed(code)]
          /\ drain_deadline' = FALSE
          /\ exit_code' = closed_exit_code(exit_code, code)
          /\ Commit(on_closed(World(mgr, display_names), id, code, interactive),
                    "Closed", id, FALSE)
    /\ UNCHANGED <<events, input_requested, next_signal, pc, exit_status,
                   inputVars, argVars, cbVars, dnVars, shVars, fnVars>>

\* InputEvent::Line (main.rs:391-461)
HLine ==
    LET handled(line, r) ==
            /\ r.world.mgr.next_id <= MaxShells
            /\ CommitLine(r.world, "Line", line, r.result)
            /\ pc' = IF r.world.panic THEN "panicked"
                     ELSE IF r.result.kind = "Quit" THEN "cleanup" ELSE pc
            /\ readers' = ReadersAfter(r.world)
    IN  /\ AtSelect
        /\ interactive
        /\ events < MaxEvents
        /\ events' = events + 1
        /\ \E line \in UserLines(mgr) :
              /\ RegistersTrigger(line) => ManagerTriggerRoom(mgr)
              /\ \E oks \in SpawnOutcomes(line), wraps \in WrapOutcomes(line),
                    rnd \in SessionRandoms :
                    handled(line, on_line(World(mgr, display_names), line, interactive,
                                          command, password, oks, rnd, wraps))
        /\ UNCHANGED <<input_requested, next_signal, drain_deadline, exit_code, exit_status,
                       inputVars, argVars, cbVars, dnVars, shVars, fnVars>>

\* InputEvent::Interrupted (main.rs:464-471)
HInterrupted ==
    /\ AtSelect
    /\ interactive
    /\ Commit(on_interrupted(World(mgr, display_names)), "Interrupted", -1, FALSE)
    /\ UNCHANGED <<events, input_requested, next_signal, drain_deadline, exit_code, pc, exit_status,
                   readers, inputVars, argVars, cbVars, dnVars, shVars, fnVars>>

\* InputEvent::Eof (main.rs:463)
HEof ==
    /\ AtSelect
    /\ interactive
    /\ Commit(World(mgr, display_names), "Eof", -1, FALSE)
    /\ pc' = "cleanup"
    /\ UNCHANGED <<events, input_requested, next_signal, drain_deadline, exit_code, exit_status,
                   readers, inputVars, argVars, cbVars, dnVars, shVars, fnVars>>

\* a signal, handled at the top of the loop (main.rs:271-311)
HSignal ==
    /\ pc = "select"
    /\ \E sig \in Signals :
          /\ Commit(handle_signal(World(mgr, display_names), sig, interactive),
                    "Signal", -1, FALSE)
          /\ pc' = IF sig = "Int" /\ ~interactive THEN "exited" ELSE pc
          /\ exit_status' = IF sig = "Int" /\ ~interactive THEN ExitOnSigint ELSE exit_status
    /\ UNCHANGED <<events, input_requested, next_signal, drain_deadline, exit_code,
                   readers, inputVars, argVars, cbVars, dnVars, shVars, fnVars>>

\* print_unfinished_line on every shell, before a prompt (main.rs:325-327, 482-484)
HFlush ==
    /\ AtSelect
    /\ interactive
    /\ Commit(flush_unfinished(World(mgr, display_names)), "Flush", -1, FALSE)
    /\ UNCHANGED <<events, input_requested, next_signal, drain_deadline, exit_code, pc, exit_status,
                   readers, inputVars, argVars, cbVars, dnVars, shVars, fnVars>>

\* the break at the top of the loop (main.rs:313-316)
HBreak ==
    /\ pc = "select"
    /\ all_terminated(mgr)
    /\ Commit(World(mgr, display_names), "Break", -1, FALSE)
    /\ pc' = "cleanup"
    /\ UNCHANGED <<events, input_requested, next_signal, drain_deadline, exit_code, exit_status,
                   readers, inputVars, argVars, cbVars, dnVars, shVars, fnVars>>

HNext ==
    \/ HData
    \/ HClosed
    \/ HLine
    \/ HInterrupted
    \/ HEof
    \/ HSignal
    \/ HFlush
    \/ HBreak
    \/ Cleanup

SpecHandlers == HInit /\ [][HNext]_vars

\* C1: a shell that is Dead stays Dead as long as the manager holds it: no
\* Data or Closed event, input line, control command, signal or flush changes
\* its state, changes its read_buffer, or writes to its PTY.
C1_DeadIsAbsorbing ==
    [][\A id \in DOMAIN mgr.shells :
          mgr.shells[id].state = "Dead" /\ id \in DOMAIN mgr'.shells =>
              /\ mgr'.shells[id].state = "Dead"
              /\ mgr'.shells[id].read_buffer = mgr.shells[id].read_buffer
              /\ fx'.w[id] = <<>>]_vars

\* a Data event was handled for a shell that was Dead already (nothing was
\* killed in that step), next to a shell that is still enabled
C1_Witness ==
    /\ fx.act = "Data"
    /\ fx.id \in DOMAIN mgr.shells
    /\ mgr.shells[fx.id].state = "Dead"
    /\ fx.kills = <<>>
    /\ \E j \in DOMAIN mgr.shells : mgr.shells[j].enabled

\* C2: in every reachable state every enabled shell has a state other than Dead.
C2_EnabledNotDead ==
    \A id \in DOMAIN mgr.shells : mgr.shells[id].enabled => mgr.shells[id].state # "Dead"

\* an input line was handled with a Dead shell and an enabled shell present
C2_Witness ==
    /\ fx.act = "Line"
    /\ \E i, j \in DOMAIN mgr.shells :
          /\ mgr.shells[i].state = "Dead"
          /\ ~mgr.shells[i].enabled
          /\ mgr.shells[j].enabled

\* ------------------------------------- the loop of main with its input thread

\* what the remote of shell sh may send in one read: output without and with
\* a newline, and the line the remote prints for its prompt
LoopChunks(sh) ==
    LET triggers == DOMAIN sh.callbacks.callbacks
    IN  {<<"x">>, <<"x", LF>>} \cup {t \o <<LF>> : t \in triggers}

\* what readline returns
LoopEvents ==
    {[kind |-> "Eof", line |-> <<>>], [kind |-> "Interrupted", line |-> <<>>]}
    \cup {[kind |-> "Line", line |-> l] :
            l \in {<<"ls">>, <<":", "quit">>, <<":", "disable", SP, "a">>, <<":", "enable">>}}

ProcessRuns == pc \in {"top", "select", "cleanup"}

Init ==
    /\ SessionStart({AllSpawn})
    /\ pc = "top"
    /\ input_thread = IF interactive THEN "recv" ELSE "stopped"

\* the loop body up to select! (main.rs:270-341)
LoopTop ==
    LET reached(r) ==
            /\ r.sends => Len(input_req) < InputChannelCapacity
            /\ Commit(r.world, "LoopTop", -1, r.sends)
            /\ pc' = r.pc
            /\ exit_status' = IF r.pc = "exited" THEN ExitOnSigint ELSE exit_status
            /\ input_requested' = r.input_requested
            /\ drain_deadline' = r.drain_deadline
            /\ input_req' = IF r.sends THEN Append(input_req, "ReadLine") ELSE input_req
    IN  /\ pc = "top"
        /\ reached(loop_top(World(mgr, display_names), next_signal, interactive,
                            input_requested, drain_deadline))
        /\ next_signal' = "None"
        /\ UNCHANGED <<exit_code, readers, events, input_thread, input_resp, argVars,
                       cbVars, dnVars, shVars, fnVars>>

\* select!: a Data event of the reader task of shell id (main.rs:346-362)
ShellData ==
    LET handled(id, r) ==
            /\ WorldDataRoom(r.world, id)
            /\ Commit(r.world, "ShellData", id, FALSE)
            /\ pc' = IF r.world.panic THEN "panicked" ELSE "top"
    IN  /\ pc = "select"
        /\ \E id \in DOMAIN readers, rnd \in SessionRandoms :
              /\ readers[id].open
              /\ \E data \in (IF id \in DOMAIN mgr.shells THEN LoopChunks(mgr.shells[id])
                              ELSE StrayChunks) :
                    handled(id, on_data(World(mgr, display_names), id, data, interactive, rnd))
        /\ UNCHANGED <<input_requested, next_signal, drain_deadline, exit_code, exit_status,
                       readers, events, inputVars, argVars, cbVars, dnVars, shVars, fnVars>>

\* select!: the reader task of shell id saw the end of the PTY, reaped the
\* child and sent Closed (main.rs:98-107), which the loop handles (main.rs:363-378)
ReaderCloses(id) ==
    /\ pc = "select"
    /\ id \in DOMAIN readers
    /\ readers[id].open
    /\ \E code \in ExitCodes :
          /\ readers' = [readers EXCEPT ![id] = ReaderClosed(code)]
          /\ exit_code' = closed_exit_code(exit_code, code)
          /\ Commit(on_closed(World(mgr, display_names), id, code, interactive),
                    "ShellClosed", id, FALSE)
    /\ drain_deadline' = FALSE
    /\ pc' = "top"
    /\ UNCHANGED <<input_requested, next_signal, exit_status, events, inputVars, argVars,
                   cbVars, dnVars, shVars, fnVars>>

ShellClosed == \E id \in Ids : ReaderCloses(id)

\* select!: a response of the input thread (main.rs:381-474).  What readline
\* returned is drawn here, where it is used: what the user may type does not
\* depend on what happened since.
InputResponse ==
    LET handled(line, r) ==
            /\ CommitLine(r.world, "InputResponse", line, r.result)
            /\ pc' = IF r.world.panic THEN "panicked"
                     ELSE IF r.result.kind = "Quit" THEN "cleanup" ELSE "top"
    IN  /\ pc = "select"
        /\ input_resp # <<>>
        /\ input_resp' = Tail(input_resp)
        /\ input_requested' = FALSE
        /\ \E evt \in LoopEvents :
              CASE evt.kind = "Eof" ->
                     /\ Commit(World(mgr, display_names), "InputResponse", -1, FALSE)
                     /\ pc' = "cleanup"
                [] evt.kind = "Interrupted" ->
                     /\ Commit(on_interrupted(World(mgr, display_names)), "InputResponse", -1, FALSE)
                     /\ pc' = "top"
                [] OTHER ->
                     \E rnd \in SessionRandoms :
                        handled(evt.line, on_line(World(mgr, display_names), evt.line,
                                                  interactive, command, password,
                                                  AllSpawn, rnd, FALSE))
        /\ UNCHANGED <<next_signal, drain_deadline, exit_code, exit_status, readers, events,
                       input_req, input_thread, argVars, cbVars, dnVars, shVars, fnVars>>

\* select!: a signal from the signal listener (main.rs:475-477)
SignalArrives ==
    /\ pc = "select"
    /\ next_signal' \in Signals
    /\ pc' = "top"
    /\ fx' = Effects("SignalArrives", -1, World(mgr, display_names), FALSE)
    /\ UNCHANGED <<mgr, display_names, input_requested, drain_deadline, exit_code,
                   exit_status, readers, events, inputVars, argVars, cbVars, dnVars, shVars, fnVars>>

\* select!: the drain timer (main.rs:478-494)
DrainTimer ==
    /\ pc = "select"
    /\ drain_arm_enabled(drain_deadline, input_requested)
    /\ Len(input_req) < InputChannelCapacity
    /\ drain_deadline' = FALSE
    /\ Commit(flush_unfinished(World(mgr, display_names)), "DrainTimer", -1, TRUE)
    /\ input_req' = Append(input_req, "ReadLine")
    /\ input_requested' = TRUE
    /\ pc' = "top"
    /\ UNCHANGED <<next_signal, exit_code, exit_status, readers, events, input_thread,
                   input_resp, argVars, cbVars, dnVars, shVars, fnVars>>

\* the input thread takes a request (input.rs:77)
InputThreadRecv ==
    /\ ProcessRuns
    /\ input_thread = "recv"
    /\ input_req # <<>>
    /\ input_req' = Tail(input_req)
    /\ input_thread' = IF Head(input_req) = "ReadLine" THEN "readline" ELSE "stopped"
    /\ UNCHANGED <<input_resp, mainVars, argVars, cbVars, dnVars, shVars, fnVars>>

\* readline returns and the input thread answers (input.rs:79-92)
InputThreadAnswer ==
    /\ ProcessRuns
    /\ input_thread = "readline"
    /\ Len(input_resp) < InputChannelCapacity
    /\ input_resp' = Append(input_resp, "InputEvent")
    /\ input_thread' = "recv"
    /\ UNCHANGED <<input_req, mainVars, argVars, cbVars, dnVars, shVars, fnVars>>

Next ==
    \/ LoopTop
    \/ ShellData
    \/ ShellClosed
    \/ InputResponse
    \/ SignalArrives
    \/ DrainTimer
    \/ Cleanup
    \/ InputThreadRecv
    \/ InputThreadAnswer

Spec == Init /\ [][Next]_vars

\* the ReadLine requests main has sent and got no response to: in the request
\* channel, with the input thread in readline, or answered in the response channel
Outstanding ==
    Count(input_req, "ReadLine") + (IF input_thread = "readline" THEN 1 ELSE 0)
        + Len(input_resp)

\* C3: at most one ReadLine request is outstanding in every reachable state.
C3_OneReadLineOutstanding == Outstanding <= 1

\* the loop is back at its top after a Data event, every enabled shell
\* Idle, while the request it sent is still with the input thread
C3_Witness ==
    /\ pc = "top"
    /\ fx.act = "ShellData"
    /\ Outstanding = 1
    /\ input_thread = "readline"
    /\ count_awaited_processes(mgr).awaited = 0

\* this step sends a ReadLine request
SendsReadLine ==
    /\ Len(input_req') = Len(input_req) + 1
    /\ input_req'[Len(input_req')] = "ReadLine"

\* C4: a ReadLine request is sent either at the top of the loop when
\* count_awaited_processes reports no awaited shell, or by the drain timer
\* arm, which fires only with a deadline set and no ReadLine outstanding.
C4_ReadLineWhenIdleOrDrained ==
    [][SendsReadLine =>
          \/ /\ pc = "top"
             /\ count_awaited_processes(mgr').awaited = 0
          \/ /\ pc = "select"
             /\ fx'.act = "DrainTimer"
             /\ drain_deadline
             /\ Outstanding = 0]_vars

\* the drain timer asked for a line while a shell was awaited
C4_Witness ==
    /\ fx.act = "DrainTimer"
    /\ fx.readline
    /\ count_awaited_processes(mgr).awaited > 0


\* ----------------------------------------- what the handlers do to the shells

\* a line the loop forwards to the shells: not a control command, not a
\* local command, not ^D (main.rs:394, 421, 443, 449)
PlainLine(line) ==
    /\ ~(line # <<>> /\ Head(line) \in {":", "!"})
    /\ line # <<"^D">>

\* a control command line (main.rs:394)
ControlLine(line) == line # <<>> /\ Head(line) = ":"

\* handle_data treats a shell the same whether it is enabled or not
SameWhenDisabled(sh, data) ==
    LET on(h)  == [h.c EXCEPT !.sh.enabled = FALSE]
    IN  on(handle_data([sh EXCEPT !.enabled = TRUE], data, interactive, "r1"))
        = on(handle_data([sh EXCEPT !.enabled = FALSE], data, interactive, "r1"))

\* C11: a plain input line is written, followed by a newline, to exactly the
\* shells that are enabled and not Dead; every other shell is written
\* nothing and keeps its state; and what handle_data does with the output
\* of a shell does not depend on its enabled flag.
C11_PlainLineToEnabledShells ==
    [][/\ fx'.act = "Line" /\ PlainLine(fx'.line.v) =>
            \A id \in DOMAIN mgr.shells :
                IF mgr.shells[id].enabled /\ mgr.shells[id].state # "Dead"
                THEN fx'.w[id] = <<fx'.line.v \o <<LF>>>>
                ELSE /\ fx'.w[id] = <<>>
                     /\ mgr'.shells[id] = mgr.shells[id]
       /\ \A id \in DOMAIN mgr.shells :
             ~mgr.shells[id].enabled =>
                 \A data \in HandlerChunks(mgr.shells[id]) :
                     SameWhenDisabled(mgr.shells[id], data)]_vars

\* a plain line was forwarded with a disabled Idle shell, which stayed Idle
\* and was written nothing, next to a shell that was written the line
C11_Witness ==
    /\ fx.act = "Line"
    /\ PlainLine(fx.line.v)
    /\ \E i, j \in DOMAIN mgr.shells :
          /\ ~mgr.shells[i].enabled
          /\ mgr.shells[i].state = "Idle"
          /\ fx.w[i] = <<>>
          /\ fx.w[j] = <<fx.line.v \o <<LF>>>>

\* the patterns :enable and :disable are given
TogglePatterns(m) == Patterns(m) \cup {<<"*">>}

\* the shells a pattern selects
Selected(pat, m) == SeqRange(selected_shells_indices(pat, m).ids)

\* whether toggle_shells, given an explicit pattern that selects something,
\* finds every selected shell Dead or in the state asked for
AlreadyToggled(pat, enable, m) ==
    /\ pat # <<>> /\ pat # <<"*">>
    /\ Selected(pat, m) # {}
    /\ \A id \in Selected(pat, m) :
          m.shells[id].state = "Dead" \/ m.shells[id].enabled = enable

\* the enabled flags toggle_shells leaves
Toggled(pat, enable) ==
    toggle_shells(pat, enable, World(mgr, display_names), interactive).mgr.shells

\* C12: :enable / :disable with an explicit pattern whose selected non-Dead
\* shells are all in the requested state already inverts the enabled flag of
\* every non-Dead shell outside the selection and leaves the selected shells
\* in the requested state; otherwise it sets every selected non-Dead shell to
\* the requested state and leaves every other shell unchanged.
C12_ToggleInvertsTheOthers ==
    interactive =>
    \A pat \in TogglePatterns(mgr), enable \in BOOLEAN :
        \A id \in DOMAIN mgr.shells :
            Toggled(pat, enable)[id].enabled =
                IF mgr.shells[id].state = "Dead" THEN mgr.shells[id].enabled
                ELSE IF AlreadyToggled(pat, enable, mgr)
                THEN (IF id \in Selected(pat, mgr) THEN mgr.shells[id].enabled
                      ELSE ~mgr.shells[id].enabled)
                ELSE (IF id \in Selected(pat, mgr) THEN enable
                      ELSE mgr.shells[id].enabled)

\* :disable was given the name of a shell that was disabled already, and
\* that shell is enabled now
C12_Witness ==
    /\ fx.act = "Line"
    /\ Len(fx.line.v) > 3
    /\ fx.line.v[2] = "disable"
    /\ \E id \in DOMAIN mgr.shells :
          /\ mgr.shells[id].display_name = SubSeq(fx.line.v, 4, Len(fx.line.v))
          /\ mgr.shells[id].state # "Dead"
          /\ mgr.shells[id].enabled

\* whether the ids are those of every shell of the manager, once each, in
\* the order of the display names (equal names in the order of the ids)
EveryShellInNameOrder(ids, m) ==
    /\ Len(ids) = Cardinality(DOMAIN m.shells)
    /\ SeqRange(ids) = DOMAIN m.shells
    /\ \A k, l \in 1..Len(ids) :
          k < l => ~StrLess(m.shells[ids[l]].display_name, m.shells[ids[k]].display_name)

\* C13: the empty pattern and "*" select every shell of the manager exactly
\* once, in display-name order, whatever the shells' states, enabled flags
\* and last printed lines, and print nothing; the two give the same selection.
C13_WildcardSelectsAll ==
    /\ EveryShellInNameOrder(selected_shells_indices(<<>>, mgr).ids, mgr)
    /\ selected_shells_indices(<<"*">>, mgr) = selected_shells_indices(<<>>, mgr)
    /\ selected_shells_indices(<<>>, mgr).out = <<>>

\* `:disable *` was handled with two shells whose display-name order is not
\* the order of their ids, one of them Dead, one having printed a line
C13_Witness ==
    /\ fx.act = "Line"
    /\ fx.line.v = <<":", "disable", SP, "*">>
    /\ \E i, j \in DOMAIN mgr.shells :
          /\ i < j
          /\ StrLess(mgr.shells[j].display_name, mgr.shells[i].display_name)
          /\ mgr.shells[i].state # mgr.shells[j].state
    /\ \A i \in DOMAIN mgr.shells :
          mgr.shells[i].state # "Dead" => ~mgr.shells[i].enabled

\* C14: whatever bytes a remote shell delivers in a Data event, and whatever
\* exit code a Closed event carries, the program has not aborted after the
\* event was handled.
C14_RemoteNeverAborts ==
    fx.act \in {"Data", "Closed"} => pc # "panicked"

\* a Data event brought the line a remote prints for a :rename, and the
\* program aborted in DisplayNameRegistry::change
C14_Witness ==
    /\ fx.act = "Data"
    /\ pc = "panicked"
    /\ \E j \in DOMAIN mgr.shells : j # fx.id /\ mgr.shells[j].state # "Dead"

\* C15: every control-command line is answered with Ok, Quit, Error or
\* AddHosts, and after its result was processed the program has not aborted:
\* the loop goes on, or ends in the cleanup after Quit; an Error result
\* leaves the state and the enabled flag of every shell as they were.
C15_ControlLineNeverAborts ==
    [][fx'.act = "Line" /\ ControlLine(fx'.line.v) =>
          /\ fx'.result \in {"Ok", "Quit", "Error", "AddHosts"}
          /\ pc' = IF fx'.result = "Quit" THEN "cleanup" ELSE pc
          /\ fx'.result = "Error" =>
                /\ DOMAIN mgr'.shells = DOMAIN mgr.shells
                /\ \A id \in DOMAIN mgr.shells :
                      /\ mgr'.shells[id].state = mgr.shells[id].state
                      /\ mgr'.shells[id].enabled = mgr.shells[id].enabled]_vars

\* `:add #` was answered with AddHosts, and the program aborted in
\* DisplayNameRegistry::change while the host was added
C15_Witness ==
    /\ fx.act = "Line"
    /\ fx.line.v = <<":", "add", SP, "#">>
    /\ fx.result = "AddHosts"
    /\ pc = "panicked"

\* --------------------------------------------------------- the exit code

\* the maximum of 0 and the exit codes of the Closed events handled so far
MaxClosedCode == MaxOf({0} \cup {readers[i].code : i \in {j \in DOMAIN readers : ~readers[j].open}})

\* C16: the running exit code never decreases and is the maximum of 0 and the
\* exit codes of the Closed events handled so far; when the loop has ended
\* and the cleanup is done, the process exits with that maximum.
C16_ExitCodeIsMaximum ==
    [][/\ exit_code' >= exit_code
       /\ exit_code' = MaxClosedCode'
       /\ fx'.act = "Cleanup" => exit_status' = MaxClosedCode']_vars

\* the program has exited after the loop with status 1, after a Closed event
\* with code 1 and a Closed event with code 0
C16_Witness ==
    /\ pc = "exited"
    /\ fx.act = "Cleanup"
    /\ exit_status = 1
    /\ \E i, j \in DOMAIN readers :
          /\ ~readers[i].open /\ readers[i].code = 1
          /\ ~readers[j].open /\ readers[j].code = 0

\* ------------------------------------------ the loop with children that exit

\* the session starts like Init, and some of the spawns of the command line
\* may have failed (without --abort-errors, main.rs:241-246)
LiveInit ==
    /\ SessionStart([1..MaxShells -> BOOLEAN])
    /\ pc = "top"
    /\ input_thread = IF interactive THEN "recv" ELSE "stopped"

\* The main task runs when it can (the top of the loop, the cleanup), and
\* every child exits at some time: the reader task of every shell sends
\* Closed, which the loop receives when it is at select!.
SpecLive ==
    /\ LiveInit
    /\ [][Next]_vars
    /\ WF_vars(LoopTop)
    /\ WF_vars(Cleanup)
    /\ \A id \in Ids : SF_vars(ReaderCloses(id))

\* C17: in non-interactive mode, when every child exits, the program
\* terminates at some time, however many of the spawns succeeded.
C17_NonInteractiveTerminates ==
    ~interactive ~> pc \in {"exited", "panicked"}

\* a non-interactive run is at select! with no shell in the manager: every
\* spawn failed
C17_Witness ==
    /\ ~interactive
    /\ pc = "select"
    /\ DOMAIN mgr.shells = {}
    /\ DOMAIN readers = {}

\* ---------------------------------------------------- the life of the shells

\* the command of a control line
CommandOf(line) == IF Len(line) >= 2 /\ line[1] = ":" THEN line[2] ELSE ""

\* C18: a shell leaves the manager only in a step that handles a :reconnect
\* or a :purge line, and is Dead when it is taken out; no Data or Closed
\* event, no other line, no signal and no flush removes a shell.
C18_RemovedOnlyWhenDead ==
    [][\A id \in DOMAIN mgr.shells :
          id \notin DOMAIN mgr'.shells =>
              /\ fx'.act = "Line"
              /\ CommandOf(fx'.line.v) \in {"reconnect", "purge"}
              /\ \E k \in 1..Len(fx'.removed) :
                    /\ fx'.removed[k].id = id
                    /\ fx'.removed[k].found = mgr.shells[id].state
                    /\ fx'.removed[k].state = "Dead"]_vars

\* :purge took out a shell that was disabled and not Dead before
C18_Witness ==
    /\ fx.act = "Line"
    /\ CommandOf(fx.line.v) = "purge"
    /\ \E k \in 1..Len(fx.removed) : fx.removed[k].found = "NotStarted"

\* C19: every shell added gets an id that is at least the next_id of before,
\* hence greater than every id given before, and next_id ends above it;
\* next_id never decreases, so an id is never given twice, also after its
\* shell was removed; and every shell is held under its own id.
C19_IdsNeverReused ==
    [][/\ mgr'.next_id >= mgr.next_id
       /\ \A id \in DOMAIN mgr'.shells :
             /\ mgr'.shells[id].id = id
             /\ id < mgr'.next_id
             /\ id \notin DOMAIN mgr.shells => id >= mgr.next_id]_vars

\* :reconnect took the Dead shell 0 out and the shell added for it has id 1
C19_Witness ==
    /\ fx.act = "Line"
    /\ CommandOf(fx.line.v) = "reconnect"
    /\ \E k \in 1..Len(fx.removed) : fx.removed[k].id = 0
    /\ DOMAIN mgr.shells = {1}
    /\ mgr.next_id = 2

\* C20: an Interrupted input event writes the byte 0x03, once, to each shell
\* that is enabled and Running, writes nothing to any other shell, and leaves
\* every shell, its state included, as it was.
C20_InterruptOnlyRunning ==
    [][fx'.act = "Interrupted" =>
          /\ mgr' = mgr
          /\ \A id \in DOMAIN mgr.shells :
                fx'.w[id] = IF mgr.shells[id].enabled /\ mgr.shells[id].state = "Running"
                            THEN << <<"^C">> >>
                            ELSE <<>>]_vars

\* the interrupt reached a Running shell and passed over an enabled one that
\* was not Running
C20_Witness ==
    /\ fx.act = "Interrupted"
    /\ \E i, j \in DOMAIN mgr.shells :
          /\ mgr.shells[i].enabled
          /\ mgr.shells[i].state = "Running"
          /\ fx.w[i] = << <<"^C">> >>
          /\ mgr.shells[j].enabled
          /\ mgr.shells[j].state \in {"Idle", "NotStarted"}
          /\ fx.w[j] = <<>>

\* C21: the configured password is written to the PTY of a shell at most
\* once: a handle_data call on a shell that was already sent the password
\* writes no password, whatever `password:` its data holds.
C21_PasswordWrittenOnce == shLast.password_writes <= 1

\* the shell answered a first password prompt and then read a second one
C21_Witness ==
    /\ shLast.op = "handle_data"
    /\ shLast.state = "NotStarted"
    /\ shLast.arg = <<"Password:", SP>>
    /\ shLast.password_writes = 2
    /\ shLast.w = <<shell.password.v \o <<LF>>>>

\* the host arguments of an :add line
AddArguments(line) == SplitWhitespace(SubSeq(line, 3, Len(line)))

\* every argument expanded with the range syntax, in the order given
ExpandedHosts(arguments) ==
    Flatten([k \in 1..Len(arguments) |-> expand_syntax(arguments[k])])

\* C22: an :add line with host arguments returns AddHosts with every argument
\* expanded by expand_syntax, and every shell the step spawns is the shell of
\* one of the expanded names.
C22_AddExpandsHosts ==
    [][/\ fx'.act = "Line"
       /\ CommandOf(fx'.line.v) = "add"
       /\ AddArguments(fx'.line.v) # <<>>
       => /\ fx'.result = "AddHosts"
          /\ fx'.hosts = ExpandedHosts(AddArguments(fx'.line.v))
          /\ \A i \in DOMAIN mgr'.shells \ DOMAIN mgr.shells :
                \E k \in 1..Len(fx'.hosts) : mgr'.shells[i].hostname = fx'.hosts[k]]_vars

\* :add a<1-2> spawned one shell, for the host named by the unexpanded argument
C22_Witness ==
    /\ fx.act = "Line"
    /\ fx.line.v = <<":", "add", SP, "a", "<", "1", "-", "2", ">">>
    /\ fx.result = "AddHosts"
    /\ fx.hosts = << <<"a", "<", "1", "-", "2", ">">> >>
    /\ ExpandedHosts(fx.hosts) = << <<"a", "1">>, <<"a", "2">> >>
    /\ \E i \in DOMAIN mgr.shells : mgr.shells[i].hostname = <<"a", "<", "1", "-", "2", ">">>

\* a display name the registry makes of a hostname: the hostname itself or
\* the hostname with "#" and a number
UniqueNameOf(name, hostname) ==
    \/ name = hostname
    \/ /\ Len(name) > Len(hostname) + 1
       /\ SubSeq(name, 1, Len(hostname) + 1) = hostname \o <<"#">>
       /\ AllDigits(SubSeq(name, Len(hostname) + 2, Len(name)))

\* C23: :rename with an empty name leaves every enabled shell with the
\* display name the registry makes of its hostname.
C23_EmptyRenameResets ==
    [][/\ fx'.act = "Line"
       /\ CommandOf(fx'.line.v) = "rename"
       /\ Trim(SubSeq(fx'.line.v, 3, Len(fx'.line.v))) = <<>>
       => \A id \in DOMAIN mgr.shells :
             mgr.shells[id].enabled =>
                 /\ id \in DOMAIN mgr'.shells
                 /\ UniqueNameOf(mgr'.shells[id].display_name, mgr'.shells[id].hostname)]_vars

\* :rename without a name was handled and an enabled shell is still called
\* by the name an earlier :rename gave it
C23_Witness ==
    /\ fx.act = "Line"
    /\ fx.line.v = <<":", "rename">>
    /\ \E id \in DOMAIN mgr.shells :
          /\ mgr.shells[id].enabled
          /\ mgr.shells[id].hostname = <<"a">>
          /\ mgr.shells[id].display_name = <<"y">>

\* ------------------------------------------------- host_syntax on its own

\* 2^63, the least number that does not fit an i64
TooBig == <<"9", "2", "2", "3", "3", "7", "2", "0", "3", "6", "8", "5", "4", "7", "7", "5",
            "8", "0", "8">>

\* the endpoints written in a range
Numerals ==
    {<<"0">>, <<"1">>, <<"9">>, <<"1", "0">>, <<"0", "1">>, <<"0", "3">>, <<"0", "0", "1">>,
     <<"0", "1", "0">>, TooBig}

SyntaxPrefixes == {<<>>, <<"h">>, <<"<">>}
SyntaxSuffixes == {<<>>, <<"s">>, <<">">>}

\* inputs that are not of the form prefix<N-M>suffix
OtherInputs ==
    {<<>>, <<"h">>, <<"h", "<", ">">>, <<"h", "<", "x", ">">>, <<"h", "<", "1">>,
     <<"h", "<", "1", ">">>, <<"h", "<", "1", ",", "3", "-", "2", ">">>,
     <<"h", "<", "1", "-", "2", ">", "s", "<", "3", "-", "4", ">">>,
     <<"h", "<", "1", "-", ">">>, <<"h", "<", "-", ">">>}

RangeInput(prefix, start, end, suffix) ==
    prefix \o <<"<">> \o start \o <<"-">> \o end \o <<">">> \o suffix

HsInit ==
    /\ FnIdle
    /\ CbIdle
    /\ DnIdle
    /\ SessionIdle
    /\ ShellIdle

\* expand_syntax("prefix<N-M>suffix")
HsExpandRange ==
    /\ \E prefix \in SyntaxPrefixes, suffix \in SyntaxSuffixes, start \in Numerals,
          end \in Numerals :
          hsCall' = [op |-> "expand_range", prefix |-> prefix, suffix |-> suffix,
                     start |-> start, end |-> end,
                     result |-> expand_syntax(RangeInput(prefix, start, end, suffix))]
    /\ UNCHANGED <<history_words, csCall, pty, cbVars, dnVars, sessionVars, shVars>>

\* expand_syntax of any other input
HsExpandOther ==
    /\ \E input \in OtherInputs :
          hsCall' = [op |-> "expand_other", input |-> input,
                     region |-> SYNTAX_RE_find(input).found,
                     result |-> expand_syntax(input)]
    /\ UNCHANGED <<history_words, csCall, pty, cbVars, dnVars, sessionVars, shVars>>

\* iter_numbers(start, end), as expand_syntax calls it for one item
HsIterNumbers ==
    /\ \E start \in Numerals, end \in Numerals :
          hsCall' = [op |-> "iter_numbers", start |-> start, end |-> end,
                     result |-> iter_numbers(start, end)]
    /\ UNCHANGED <<history_words, csCall, pty, cbVars, dnVars, sessionVars, shVars>>

HsNext == HsExpandRange \/ HsExpandOther \/ HsIterNumbers

SpecSyntax == HsInit /\ [][HsNext]_vars

\* the number part of a name made of prefix, digits and suffix
NumberPart(name, prefix, suffix) == SubSeq(name, Len(prefix) + 1, Len(name) - Len(suffix))

\* the names are prefix, number, suffix, the numbers running from the one
\* written by start to the one written by end in steps of one
RunsFromTo(names, prefix, start, end, suffix) ==
    LET number(k) == NumberPart(names[k], prefix, suffix)
        step == IF DigitsLeq(StripZeros(start), StripZeros(end)) THEN 1 ELSE -1
    IN  /\ names # <<>>
        /\ \A k \in 1..Len(names) :
              /\ Len(names[k]) > Len(prefix) + Len(suffix)
              /\ names[k] = prefix \o number(k) \o suffix
              /\ AllDigits(number(k))
        /\ StripZeros(number(1)) = StripZeros(start)
        /\ StripZeros(number(Len(names))) = StripZeros(end)
        /\ \A k \in 1..(Len(names) - 1) :
              DecimalValue(number(k + 1)) = DecimalValue(number(k)) + step

\* C24: expand_syntax("prefix<N-M>suffix"), prefix and suffix without a range
\* region, is the list of the names prefix, number, suffix whose numbers run
\* from N to M in steps of one (up when N <= M, down otherwise: |N-M|+1
\* names); an input without a range region expands to itself alone.
C24_RangeExpansion ==
    /\ hsCall.op = "expand_range"
       /\ ~SYNTAX_RE_find(hsCall.prefix).found
       /\ ~SYNTAX_RE_find(hsCall.suffix).found
       => RunsFromTo(hsCall.result, hsCall.prefix, hsCall.start, hsCall.end, hsCall.suffix)
    /\ hsCall.op = "expand_other" /\ ~hsCall.region => hsCall.result = <<hsCall.input>>

\* h<N-N> with N = 2^63 expanded to the one name h0
C24_Witness ==
    /\ hsCall.op = "expand_range"
    /\ hsCall.prefix = <<"h">>
    /\ hsCall.suffix = <<>>
    /\ hsCall.start = TooBig
    /\ hsCall.end = TooBig
    /\ hsCall.result = << <<"h", "0">> >>

\* an endpoint written with more than one digit and a leading zero
LeadingZero(numeral) == Len(numeral) > 1 /\ Head(numeral) = "0"

\* the wider of the two endpoint widths
WiderWidth(start, end) == IF Len(start) >= Len(end) THEN Len(start) ELSE Len(end)

\* C25: the numbers iter_numbers(N, M) produces are all zero-padded to the
\* wider of the two endpoint widths when N or M is written with more than one
\* digit and a leading zero, and all written without padding otherwise.
C25_ZeroPadding ==
    hsCall.op = "iter_numbers" =>
        \A k \in 1..Len(hsCall.result) :
            hsCall.result[k] =
                IF LeadingZero(hsCall.start) \/ LeadingZero(hsCall.end)
                THEN ZeroPad(StripZeros(hsCall.result[k]), WiderWidth(hsCall.start, hsCall.end))
                ELSE StripZeros(hsCall.result[k])

\* 1-03 produced 01, 02, 03: only the second endpoint has the leading zero
C25_Witness ==
    /\ hsCall.op = "iter_numbers"
    /\ hsCall.start = <<"1">>
    /\ hsCall.end = <<"0", "3">>
    /\ hsCall.result = << <<"0", "1">>, <<"0", "2">>, <<"0", "3">> >>

\* ------------------------------------------- the completion state on its own

CsInit ==
    /\ FnIdle
    /\ CbIdle
    /\ DnIdle
    /\ SessionIdle
    /\ ShellIdle

\* add_history_words(line), as the loop calls it for every line that is not
\* a control command (main.rs:458-460)
CsAddHistoryWords ==
    /\ \E fresh \in 0..MaxLineWords :
          /\ csCall' = fresh
          /\ history_words' = add_history_words(history_words, fresh)
    /\ UNCHANGED <<hsCall, pty, cbVars, dnVars, sessionVars, shVars>>

SpecCompletion == CsInit /\ [][CsAddHistoryWords]_vars

\* C26: after any sequence of add_history_words calls the completion state
\* holds at most 10,000 distinct history words.
C26_HistoryWordsCapped == history_words <= HistoryLimit

\* a line with two new words was added to 9,999 words
C26_Witness == csCall = 2 /\ history_words = HistoryLimit + 1

\* C27: the master PTY descriptor of a shell is open in every state but Dead
\* and closed once the shell is Dead.
C27_MasterFdClosedOnDead ==
    \A id \in DOMAIN mgr.shells :
        mgr.shells[id].master_fd = IF mgr.shells[id].state = "Dead" THEN "closed" ELSE "open"

\* the Closed event of a shell was handled: the shell is Dead and still holds
\* its descriptor open
C27_Witness ==
    /\ fx.act = "Closed"
    /\ fx.id \in DOMAIN mgr.shells
    /\ mgr.shells[fx.id].state = "Dead"
    /\ fx.kills = <<mgr.shells[fx.id].pid>>
    /\ mgr.shells[fx.id].master_fd = "open"

\* C28: a Dead shell has an empty read_buffer and an empty write_buffer,
\* whichever call made it Dead and whatever is called on it afterwards.
C28_DeadBuffersEmpty ==
    shell.state = "Dead" => shell.read_buffer = <<>> /\ shell.write_buffer = <<>>

\* the authenticity line of ssh arrived with more output behind it in the
\* same read: the shell is Dead and the output behind the line is gone
C28_Witness ==
    /\ shLast.op = "handle_data"
    /\ shLast.state = "NotStarted"
    /\ shLast.arg = <<AuthenticityLine, LF, "x", LF>>
    /\ shell.state = "Dead"
    /\ shell.read_buffer = <<>>

\* the maximum display_name length over the enabled shells of the manager, 0
\* when there is none
MaxEnabledNameLength(m) ==
    MaxOf({Len(m.shells[id].display_name) : id \in {i \in DOMAIN m.shells : m.shells[i].enabled}})

\* C29: in interactive mode, after every step of the loop, the registry's
\* max_display_name_length is the maximum display_name length over the
\* enabled shells of the manager, and 0 when no shell is enabled.
C29_MaxLengthTracksEnabled ==
    interactive /\ pc # "panicked" =>
        display_names.max_display_name_length = MaxEnabledNameLength(mgr)

\* a shell disabled by :disable read the echo of an earlier :rename: no shell
\* is enabled and the registry holds the length of the new name
C29_Witness ==
    /\ interactive
    /\ fx.act = "Data"
    /\ fx.id \in DOMAIN mgr.shells
    /\ DOMAIN mgr.shells = {fx.id}
    /\ mgr.shells[fx.id].display_name = <<"y">>
    /\ mgr.shells[fx.id].state # "Dead"
    /\ ~mgr.shells[fx.id].enabled
    /\ MaxEnabledNameLength(mgr) = 0
    /\ display_names.max_display_name_length = 1

\* ------------------- a Running shell, its remote's prompt and the drain timer

\* the SeenPrompt triggers registered with a shell
PromptTriggers(sh) ==
    {t \in DOMAIN sh.callbacks.callbacks : sh.callbacks.callbacks[t].action.kind = "SeenPrompt"}

\* what the remote prints when the command is done: its prompt trigger and a
\* newline, alone or behind a line of output
PromptOutputs(sh) ==
    {t \o <<LF>> : t \in PromptTriggers(sh)}
        \cup {<<"x", LF>> \o t \o <<LF>> : t \in PromptTriggers(sh)}

\* An interactive session with one shell that read its first prompt (Idle)
\* and was then sent the line "ls" (Running); the remote has written the
\* output of the command and its prompt, nothing of which is read yet.
PromptInit ==
    LET started(w) ==
            /\ mgr = w.mgr
            /\ display_names = w.names
            /\ readers = [i \in DOMAIN w.mgr.shells |-> ReaderOpen]
            /\ fx = Effects("start", -1, w, FALSE)
            /\ pty \in PromptOutputs(w.mgr.shells[0])
        typed(w) == started(on_line(w, <<"ls">>, TRUE, NoBytes, NoBytes, AllSpawn, "r1", FALSE).world)
        prompted(w) ==
            \E t \in PromptTriggers(w.mgr.shells[0]) :
                typed(on_data(w, 0, t \o <<LF>>, TRUE, "r1").world)
    IN  /\ interactive = TRUE
        /\ command = NoBytes
        /\ password = NoBytes
        /\ prompted(spawn_all(World(ShellManager_new, DisplayNameRegistry_new), << <<"a">> >>,
                              NoBytes, NoBytes, <<TRUE>>, "r1"))
        /\ input_requested = FALSE
        /\ next_signal = "None"
        /\ drain_deadline = FALSE
        /\ exit_code = 0
        /\ exit_status = -1
        /\ events = 0
        /\ pc = "top"
        /\ input_req = <<>>
        /\ input_thread = "recv"
        /\ input_resp = <<>>
        /\ hsCall = [op |-> "idle"]
        /\ history_words = 0
        /\ csCall = 0
        /\ CbIdle
        /\ DnIdle
        /\ ShellIdle

\* select!: a Data event of the reader task of shell 0, which read some of
\* what the remote wrote, up to any byte (main.rs:62-87, main.rs:346-362)
PtyData ==
    LET handled(k, r) ==
            /\ Commit(r.world, "ShellData", 0, FALSE)
            /\ pc' = IF r.world.panic THEN "panicked" ELSE "top"
            /\ pty' = SubSeq(pty, k + 1, Len(pty))
    IN  /\ pc = "select"
        /\ \E k \in 1..Len(pty), rnd \in SessionRandoms :
              handled(k, on_data(World(mgr, display_names), 0, SubSeq(pty, 1, k),
                                 interactive, rnd))
        /\ UNCHANGED <<input_requested, next_signal, drain_deadline, exit_code, exit_status,
                       readers, events, inputVars, argVars, cbVars, dnVars, shVars,
                       hsCall, history_words, csCall>>

PromptNext == LoopTop \/ PtyData \/ DrainTimer

\* what a step of PtyData does to the loop and to the bytes that wait in the
\* pty: the reader task takes a prefix of them and the Data arm runs
\* (main.rs:62-87, main.rs:346)
PtyRead ==
    /\ pc = "select"
    /\ \E k \in 1..Len(pty) : pty' = SubSeq(pty, k + 1, Len(pty))
    /\ pc' \in {"top", "panicked"}

\* the loop runs on, and the reader task reads what the remote wrote; the
\* drain timer fires or not, as the pauses between the reads have it
SpecPrompt ==
    PromptInit /\ [][PromptNext]_vars /\ WF_vars(LoopTop) /\ WF_<<pc, pty>>(PtyRead)

\* the remote of the Running shell 0 has written its prompt
PromptEmitted ==
    /\ mgr.shells[0].state = "Running"
    /\ pty \in PromptOutputs(mgr.shells[0])

\* C30: in interactive mode a Running shell whose remote has written its
\* SeenPrompt trigger and a newline becomes Idle, however the bytes are split
\* into Data events and wherever the drain timer fires between them.
C30_PromptMakesIdle == PromptEmitted ~> mgr.shells[0].state = "Idle"

\* everything the remote wrote was read and handled, the drain timer fired in
\* between, and the shell is Running with an empty read_buffer
C30_Witness ==
    /\ pty = <<>>
    /\ input_requested
    /\ fx.act = "ShellData"
    /\ mgr.shells[0].state = "Running"
    /\ mgr.shells[0].read_buffer = <<>>

\* ------------------------------------------------ the drain timer's prompt

\* what the drain timer arm does to the loop's own variables (main.rs:478-493)
DrainFires ==
    /\ pc = "select"
    /\ drain_arm_enabled(drain_deadline, input_requested)
    /\ Len(input_req) < InputChannelCapacity
    /\ drain_deadline' = FALSE
    /\ input_requested' = TRUE
    /\ pc' = "top"

\* what a step of LoopTop does to the place of the loop (main.rs:270-341)
LoopRuns ==
    /\ pc = "top"
    /\ pc' \in {"select", "cleanup", "exited"}

\* the loop runs on, and tokio's sleep of the drain arm runs out when nothing
\* else wakes select! before it
SpecDrain ==
    /\ Init
    /\ [][Next]_vars
    /\ WF_pc(LoopRuns)
    /\ WF_<<pc, drain_deadline, input_requested>>(DrainFires)

\* the request channel has room whenever the top of the loop may send
TopNeverBlocks ==
    pc = "top" /\ ~input_requested => Len(input_req) < InputChannelCapacity

\* the loop is running in interactive mode, no ReadLine is outstanding and an
\* enabled shell is not Idle
AwaitedUnprompted ==
    /\ interactive
    /\ pc \in {"top", "select"}
    /\ ~input_requested
    /\ Outstanding = 0
    /\ count_awaited_processes(mgr).awaited > 0

\* select! was left through a shell event or a signal
EventArrived ==
    pc = "top" /\ fx.act \in {"ShellData", "ShellClosed", "SignalArrives"}

\* C31: in interactive mode with no ReadLine outstanding and an enabled shell
\* that is not Idle, the loop waits in select! with the drain deadline set,
\* and unless a shell or signal event arrives a ReadLine request is sent.
C31_DrainTimerPrompts ==
    /\ [](AwaitedUnprompted /\ pc = "select" => drain_deadline)
    /\ AwaitedUnprompted ~> (Outstanding > 0 \/ EventArrived)

\* the drain timer has fired and sent ReadLine while a shell is awaited
C31_Witness ==
    /\ fx.act = "DrainTimer"
    /\ pc = "top"
    /\ Outstanding = 1
    /\ \E i \in DOMAIN mgr.shells :
          mgr.shells[i].enabled /\ mgr.shells[i].state \in {"NotStarted", "Running"}

\* ------------------------------------------------ the slots of a prefix

\* the name of slot n of a prefix (display_names.rs:59-66)
SlotName(prefix, n) == IF n = 0 THEN prefix ELSE prefix \o <<"#">> \o Decimal(n)

\* the names the holders hold
HeldNames == {dnHeld[h].v : h \in {g \in Holders : dnHeld[g].some}}

\* the smallest slot of a prefix whose name is in none of the names
SmallestFreeSlot(prefix, names) ==
    CHOOSE n \in 0..MaxHolders :
        /\ SlotName(prefix, n) \notin names
        /\ \A m \in 0..(n - 1) : SlotName(prefix, m) \in names

\* the registry has the slot of the name marked as in use
SlotInUse(reg, name) ==
    \E prefix \in DOMAIN reg.prefixes :
        \E n \in 0..(Len(reg.prefixes[prefix]) - 1) :
            name = SlotName(prefix, n) /\ reg.prefixes[prefix][n + 1]

\* C32: change(None, P) returns the name of the smallest slot of P that no
\* holder holds (P for slot 0, P#N for N >= 1), and a release leaves every
\* other holder its name, with the slot of that name still in use in the
\* registry, so that free interior slots are kept and given out again first.
C32_SmallestFreeSlot ==
    [][/\ dnLast'.op = "allocate" =>
              dnLast'.name = SomeName(SlotName(dnLast'.prefix,
                                               SmallestFreeSlot(dnLast'.prefix, HeldNames)))
       /\ dnLast'.op = "release" =>
              \A h \in Holders \ {dnLast'.holder} :
                  /\ dnHeld'[h] = dnHeld[h]
                  /\ dnHeld[h].some => SlotInUse(dnReg', dnHeld[h].v)]_vars

\* slot 0 of "a" was released while "a#1" is held: the hole is kept
C32_Witness ==
    /\ dnLast.op = "release"
    /\ \E h \in Holders : dnHeld[h] = SomeName(<<"a", "#", "1">>)
    /\ dnReg.prefixes[<<"a">>] = <<FALSE, TRUE>>

\* ------------------------------------------- the text that installs a trigger

\* a payload that assigns PS1: the init string and the PS1 command of the
\* non-interactive SeenPrompt branch (shell.rs:133-138, 302-307)
InstallsTrigger(payload) == \E i \in 1..Len(payload) : payload[i] = "PS1="

\* the payload holds the two halves of a registered trigger, cut inside the
\* common prefix, with the two quotes between them
CarriesSplitTrigger(payload, callbacks) ==
    \E t \in DOMAIN callbacks.callbacks :
        \E split \in 1..(Len(callbacks.common_prefix) - 1) :
            Contains(payload, SubSeq(t, 1, split) \o <<"\"", "\"">>
                                  \o SubSeq(t, split + 1, Len(t)))

\* what the remote prints for its prompt once it has run the payload: the
\* value assigned to PS1, the adjacent quoted strings concatenated
PromptOutput(payload) ==
    Filter(SubSeq(payload, FirstToken(payload, "PS1=", 1) + 1, Len(payload) - 1), {"\""})

\* C33: every payload written that assigns PS1 carries the two halves of a
\* registered trigger separated by two quotes; any_in and process report no
\* trigger in the payload, and report one in the prompt the remote prints.
C33_TriggerSplitInTransit ==
    \A k \in 1..Len(shLast.w) :
        InstallsTrigger(shLast.w[k]) =>
            /\ CarriesSplitTrigger(shLast.w[k], shell.callbacks)
            /\ ~any_in(shell.callbacks, shLast.w[k])
            /\ ~CallbackRegistry_process(shell.callbacks, shLast.w[k]).result.some
            /\ any_in(shell.callbacks, PromptOutput(shLast.w[k]))
            /\ CallbackRegistry_process(shell.callbacks, PromptOutput(shLast.w[k])).result.some

\* the non-interactive SeenPrompt branch wrote its PS1 command
C33_Witness ==
    /\ ~shInteractive
    /\ shLast.op = "handle_data"
    /\ \E k \in 1..Len(shLast.w) :
          /\ shLast.w[k][1] = "PS1="
          /\ CarriesSplitTrigger(shLast.w[k], shell.callbacks)
          /\ CallbackRegistry_process(shell.callbacks, PromptOutput(shLast.w[k])).result
                 = Some(NoneAction)

\* ------------------------------------------------ the init string is sent once

\* the last call was handle_data and wrote the init string
WroteInitString ==
    /\ shLast.op = "handle_data"
    /\ \E k \in 1..Len(shLast.w) : shLast.w[k] = shell.init_string

\* C34: over the calls on a shell handle_data writes the init string to the
\* PTY at most once, only on a shell that is NotStarted, and
\* init_string_sent is true exactly when that write has happened.
C34_InitStringSentOnce ==
    /\ shLast.init_writes <= 1
    /\ shell.init_string_sent <=> shLast.init_writes = 1
    /\ WroteInitString => shLast.state = "NotStarted" /\ shell.state = "NotStarted"

\* a NotStarted shell that had been sent its init string was given more data
\* and handle_data did not write it again
C34_Witness ==
    /\ shLast.op = "handle_data"
    /\ shLast.state = "NotStarted"
    /\ shell.state = "NotStarted"
    /\ shLast.init_writes = 1
    /\ ~WroteInitString

\* -------------------------------------- what was read while NotStarted

\* C35: in every reachable state a shell that is not NotStarted has an empty
\* read_in_state_not_started.
C35_NotStartedBufferCleared ==
    shell.state # "NotStarted" => shell.read_in_state_not_started = <<>>

\* handle_data stored a line of a NotStarted shell and then read its prompt:
\* the shell is Idle and the buffer is empty
C35_Witness ==
    /\ shLast.op = "handle_data"
    /\ Len(shLast.log) = 2
    /\ shLast.log[1].before = "NotStarted"
    /\ shLast.log[1].action = "NoMatch"
    /\ shLast.log[1].after = "NotStarted"
    /\ shLast.log[2].after = "Idle"
    /\ shell.state = "Idle"
    /\ shell.read_in_state_not_started = <<>>

\* ------------------------------------------------ ssh's line for an unknown host

\* the first complete line of a buffer, its newline included
FirstLine(buf) == SubSeq(buf, 1, FirstToken(buf, LF, 1))

\* this step is the Data arm for shell id, which is NotStarted, and the first
\* complete line it reads holds "The authenticity of host "
ReceivesAuthenticity(id) ==
    /\ fx'.act = "Data"
    /\ fx'.id = id
    /\ mgr.shells[id].state = "NotStarted"
    /\ Contains(FirstLine(mgr.shells[id].read_buffer \o fx'.data), <<AuthenticityLine>>)

\* the shell is Dead and disabled with empty buffers, and the last line
\* printed for it is not what came behind ssh's line
LeftDead(sh) ==
    /\ sh.state = "Dead"
    /\ ~sh.enabled
    /\ sh.read_buffer = <<>>
    /\ sh.write_buffer = <<>>
    /\ sh.last_printed_line # <<"x">>

\* this step leaves every other shell in the manager, its state and its
\* enabled flag as they were
OthersKept(id) ==
    \A j \in DOMAIN mgr.shells \ {id} :
        /\ j \in DOMAIN mgr'.shells
        /\ mgr'.shells[j].state = mgr.shells[j].state
        /\ mgr'.shells[j].enabled = mgr.shells[j].enabled

HasUnfinishedLine(sh) == sh.state = "Running" /\ sh.read_buffer # <<>>

\* the last call was print_unfinished_line and it left the shell and the
\* console as they were
FlushedNothing ==
    shLast'.op = "print_unfinished_line" /\ ~HasUnfinishedLine(shell)
        => shell' = shell /\ shLast'.out = <<>> /\ shLast'.w = <<>>

\* C37 as stated: print_unfinished_line changes nothing of the shell unless it
\* is Running with a non-empty read_buffer; for a Running shell whose
\* non-empty buffer holds no trigger, the buffer is printed as one line and
\* the buffer is left empty.
C37_FlushPrintsBuffer ==
    [][/\ FlushedNothing
       /\ /\ shLast'.op = "print_unfinished_line"
          /\ HasUnfinishedLine(shell)
          /\ ~any_in(shell.callbacks, shell.read_buffer)
          => /\ shLast'.out = <<shell.read_buffer>>
             /\ shell'.read_buffer = <<>>]_vars

\* C37 with the blank buffer set apart: the same, and a buffer of white space
\* only is emptied without anything printed.
C37_FlushPrintsUnlessBlank ==
    [][/\ FlushedNothing
       /\ /\ shLast'.op = "print_unfinished_line"
          /\ HasUnfinishedLine(shell)
          /\ ~any_in(shell.callbacks, shell.read_buffer)
          => /\ shell'.read_buffer = <<>>
             /\ shell'.state = shell.state
             /\ shell'.callbacks = shell.callbacks
             /\ IF \A i \in 1..Len(shell.read_buffer) : IsWhitespace(shell.read_buffer[i])
                THEN shLast'.out = <<>> /\ shell'.last_printed_line = shell.last_printed_line
                ELSE shLast'.out = <<shell.read_buffer>>
                     /\ shell'.last_printed_line = shell.read_buffer]_vars

\* a Running shell's unfinished line "x" was flushed: it is on the console,
\* it is the last printed line, and the buffer is empty
C37_Witness ==
    /\ shLast.op = "print_unfinished_line"
    /\ shLast.state = "Running"
    /\ shLast.out = <<<<"x">>>>
    /\ shell.last_printed_line = <<"x">>
    /\ shell.read_buffer = <<>>
    /\ shell.state = "Running"

\* ---------------------------------------------------------------- C38

\* the step handles a Data or Closed event of a shell that is not in the
\* manager any more
StrayEvent == fx'.act \in {"Data", "Closed"} /\ fx'.id \notin DOMAIN mgr.shells

\* C38: a Data or Closed event whose ShellId is not in the manager any more
\* leaves every shell of the manager (state, buffers, enabled flag, display
\* name) and the display-name registry as they were; nothing is printed,
\* written to a PTY or killed.
C38_StrayEventChangesNothing ==
    [][StrayEvent =>
          /\ mgr' = mgr
          /\ display_names' = display_names
          /\ fx'.kills = <<>>
          /\ \A i \in DOMAIN fx'.w : fx'.w[i] = <<>>]_vars

\* an event of a removed shell was handled after a new shell for the same
\* host had been added
C38_Witness ==
    /\ fx.act \in {"Data", "Closed"}
    /\ fx.id \in DOMAIN readers
    /\ fx.id \notin DOMAIN mgr.shells
    /\ \E j \in DOMAIN mgr.shells : j > fx.id /\ mgr.shells[j].hostname = <<"a">>

\* ---------------------------------------------------------------- C39

\* the reader task of the child with this pid has ended: it has called
\* waitpid for it (main.rs:102-106)
Reaped(rs, pid) == (pid - 1) \in DOMAIN rs /\ ~rs[pid - 1].open

\* C39: SIGKILL goes to the process group of a child only while the child has
\* not been reaped: no step (a disconnect in the Closed arm or in :purge, or
\* kill_all) signals a pid whose reader task has called waitpid.
C39_KillOnlyUnreaped ==
    [][\A k \in 1..Len(fx'.kills) : ~Reaped(readers', fx'.kills[k])]_vars

\* the Closed event of a shell was handled: its child had been reaped by the
\* reader task, and disconnect sent SIGKILL to its process group
C39_Witness ==
    /\ fx.act = "Closed"
    /\ fx.id \in DOMAIN mgr.shells
    /\ Reaped(readers, mgr.shells[fx.id].pid)
    /\ fx.kills = <<mgr.shells[fx.id].pid>>
    /\ mgr.shells[fx.id].state = "Dead"

\* ---------------------------------------------------------------- C40

\* what follows the last newline of a buffer: its trailing partial line
TrailingPartialLine(buf) == SubSeq(buf, LastToken(buf, LF) + 1, Len(buf))

\* C40: when a handle_data call returns, read_buffer holds no newline: it is
\* empty or the trailing partial line of the buffer extended by the new data.
C40_NoNewlineLeft ==
    [][shLast'.op = "handle_data" =>
          /\ \A i \in 1..Len(shell'.read_buffer) : shell'.read_buffer[i] # LF
          /\ shell'.read_buffer \in
                {<<>>, TrailingPartialLine(shell.read_buffer \o shLast'.arg)}]_vars

\* a read of a complete line with the start of the next one behind it: the
\* line was printed and only the partial line is retained
C40_Witness ==
    /\ shLast.op = "handle_data"
    /\ shLast.arg = <<"x", LF, "x">>
    /\ shLast.state = "Running"
    /\ shLast.out = <<<<"x">>>>
    /\ shell.read_buffer = <<"x">>
====
